---- MODULE Spec2Model ----
(***************************************************************************)
(* Net metering script for the Shelly Pro 3EM (src/shelly-script.js).      *)
(*                                                                         *)
(* The script integrates total active power over real elapsed time into    *)
(* two window totals (import, export) and, once the device's own energy    *)
(* counters have changed and been stable for 5 s, scales the window by a   *)
(* correction factor, adds it to two lifetime totals and stores them in    *)
(* two persisted virtual number components.                                *)
(*                                                                         *)
(* Numbers.  A JavaScript number is modelled as a pair <<n, d>>: for       *)
(* d > 0 the exact rational n/d in lowest terms; <<0, 0>> is null (or a    *)
(* missing field) and <<1, 0>> a non-finite number (NaN, Infinity).        *)
(* Arithmetic is exact: the rounding of IEEE doubles is not modelled.      *)
(* Uptime readings are integers (milliseconds).                            *)
(*                                                                         *)
(* Clock.  Shelly.getUptimeMs() is the device uptime: it never decreases.  *)
(* All readings taken inside one tick return the same millisecond.  A      *)
(* device reboot restarts the uptime together with the script; since the   *)
(* script keeps no timestamp across a restart, a restart is modelled with  *)
(* the clock running on.                                                   *)
(***************************************************************************)
EXTENDS Integers, Sequences, FiniteSets, TLC

VARIABLES
    net_metered_energy_handle,            \* handle of number:200 is non-null
    net_metered_energy_ret_handle,        \* handle of number:201 is non-null
    net_metered_energy_wh,                \* lifetime import (Wh)
    net_metered_energy_ret_wh,            \* lifetime export (Wh)
    delta_energy_integrate_wh,            \* window import (Wh)
    delta_energy_ret_integrate_wh,        \* window export (Wh)
    baseline_total_energy_wh,
    baseline_total_energy_ret_wh,
    last_seen_total_energy_wh,
    last_seen_total_energy_ret_wh,
    totals_changed_since_last_correction,
    totals_last_change_uptime_ms,
    last_correction_uptime_ms,
    last_integration_uptime_ms,
    components,                           \* the device's virtual number components
    uptime,                               \* the device clock (ms)
    ev                                    \* what the last step did (observation only)

vars == <<net_metered_energy_handle, net_metered_energy_ret_handle,
          net_metered_energy_wh, net_metered_energy_ret_wh,
          delta_energy_integrate_wh, delta_energy_ret_integrate_wh,
          baseline_total_energy_wh, baseline_total_energy_ret_wh,
          last_seen_total_energy_wh, last_seen_total_energy_ret_wh,
          totals_changed_since_last_correction, totals_last_change_uptime_ms,
          last_correction_uptime_ms, last_integration_uptime_ms,
          components, uptime, ev>>

(***************************************************************************)
(* JavaScript numbers                                                      *)
(***************************************************************************)
Null == <<0, 0>>

NaN == <<1, 0>>

AbsInt(n) == IF n < 0 THEN -n ELSE n

RECURSIVE Gcd(_, _)
Gcd(a, b) == IF b = 0 THEN a ELSE Gcd(b, a % b)

Rat(n, d) == LET g == Gcd(AbsInt(n), d) IN <<n \div g, d \div g>>

Num(n) == <<n, 1>>

Zero == <<0, 1>>

One == <<1, 1>>

Neg(x) == <<-x[1], x[2]>>

Add(x, y) ==
    LET g == Gcd(x[2], y[2])
        l == (x[2] \div g) * y[2]
    IN  Rat(x[1] * (l \div x[2]) + y[1] * (l \div y[2]), l)

Sub(x, y) == Add(x, Neg(y))

Mul(x, y) ==
    LET g1 == Gcd(AbsInt(x[1]), y[2])
        g2 == Gcd(AbsInt(y[1]), x[2])
    IN  <<(x[1] \div g1) * (y[1] \div g2), (x[2] \div g2) * (y[2] \div g1)>>

\* x / y for y # 0 (the script divides only behind its epsilon guard)
Div(x, y) ==
    Mul(x, IF y[1] > 0 THEN <<y[2], y[1]>> ELSE <<-y[2], -y[1]>>)

\* a/b <= c/d for b, d > 0, by comparing the continued fractions (no products)
RECURSIVE LeqFrac(_, _, _, _)
LeqFrac(a, b, c, d) ==
    LET qa == a \div b
        qc == c \div d
        ra == a % b
        rc == c % d
    IN  IF qa # qc THEN qa < qc
        ELSE IF ra = 0 THEN TRUE
        ELSE IF rc = 0 THEN FALSE
        ELSE LeqFrac(d, rc, b, ra)

Leq(x, y) == LeqFrac(x[1], x[2], y[1], y[2])

Lt(x, y) == ~Leq(y, x)

MathAbs(x) == <<AbsInt(x[1]), x[2]>>

isNumber(x) == x[2] > 0

clampMinMax(value, minValue, maxValue) ==
    IF Lt(value, minValue) THEN minValue
    ELSE IF Lt(maxValue, value) THEN maxValue
    ELSE value

(***************************************************************************)
(* Program constants                                                       *)
(***************************************************************************)
NET_METERED_ENERGY_ID == 200

NET_METERED_ENERGY_RET_ID == 201

ENERGY_EPSILON_WH == Rat(1, 1000)

MS_PER_HOUR == 3600000

STABLE_MS == 5000

FACTOR_GUARD == Rat(1, 1000)

FACTOR_MIN == Rat(1, 10)

FACTOR_MAX == Num(10)

\* last_integration_uptime_ms = null
NullMs == -1

INTEGRATION_TICK_MS == 500

(***************************************************************************)
(* The script's globals as one record, so that the statements of a         *)
(* function compose in program order.                                      *)
(***************************************************************************)
Globals ==
    [net_metered_energy_handle |-> net_metered_energy_handle,
     net_metered_energy_ret_handle |-> net_metered_energy_ret_handle,
     net_metered_energy_wh |-> net_metered_energy_wh,
     net_metered_energy_ret_wh |-> net_metered_energy_ret_wh,
     delta_energy_integrate_wh |-> delta_energy_integrate_wh,
     delta_energy_ret_integrate_wh |-> delta_energy_ret_integrate_wh,
     baseline_total_energy_wh |-> baseline_total_energy_wh,
     baseline_total_energy_ret_wh |-> baseline_total_energy_ret_wh,
     last_seen_total_energy_wh |-> last_seen_total_energy_wh,
     last_seen_total_energy_ret_wh |-> last_seen_total_energy_ret_wh,
     totals_changed_since_last_correction |-> totals_changed_since_last_correction,
     totals_last_change_uptime_ms |-> totals_last_change_uptime_ms,
     last_correction_uptime_ms |-> last_correction_uptime_ms,
     last_integration_uptime_ms |-> last_integration_uptime_ms,
     components |-> components,
     set_value_ok |-> <<TRUE, TRUE>>,
     fired |-> FALSE,
     correction_factor |-> Null,
     delta_energy_sum |-> Null]

\* The values the script's "let" declarations give its globals (lines 75-102)
InitialGlobals(comps) ==
    [net_metered_energy_handle |-> FALSE,
     net_metered_energy_ret_handle |-> FALSE,
     net_metered_energy_wh |-> Zero,
     net_metered_energy_ret_wh |-> Zero,
     delta_energy_integrate_wh |-> Zero,
     delta_energy_ret_integrate_wh |-> Zero,
     baseline_total_energy_wh |-> Null,
     baseline_total_energy_ret_wh |-> Null,
     last_seen_total_energy_wh |-> Null,
     last_seen_total_energy_ret_wh |-> Null,
     totals_changed_since_last_correction |-> FALSE,
     totals_last_change_uptime_ms |-> 0,
     last_correction_uptime_ms |-> 0,
     last_integration_uptime_ms |-> NullMs,
     components |-> comps,
     set_value_ok |-> <<TRUE, TRUE>>,
     fired |-> FALSE,
     correction_factor |-> Null,
     delta_energy_sum |-> Null]

SetGlobals(s) ==
    /\ net_metered_energy_handle' = s.net_metered_energy_handle
    /\ net_metered_energy_ret_handle' = s.net_metered_energy_ret_handle
    /\ net_metered_energy_wh' = s.net_metered_energy_wh
    /\ net_metered_energy_ret_wh' = s.net_metered_energy_ret_wh
    /\ delta_energy_integrate_wh' = s.delta_energy_integrate_wh
    /\ delta_energy_ret_integrate_wh' = s.delta_energy_ret_integrate_wh
    /\ baseline_total_energy_wh' = s.baseline_total_energy_wh
    /\ baseline_total_energy_ret_wh' = s.baseline_total_energy_ret_wh
    /\ last_seen_total_energy_wh' = s.last_seen_total_energy_wh
    /\ last_seen_total_energy_ret_wh' = s.last_seen_total_energy_ret_wh
    /\ totals_changed_since_last_correction' = s.totals_changed_since_last_correction
    /\ totals_last_change_uptime_ms' = s.totals_last_change_uptime_ms
    /\ last_correction_uptime_ms' = s.last_correction_uptime_ms
    /\ last_integration_uptime_ms' = s.last_integration_uptime_ms
    /\ components' = s.components

(***************************************************************************)
(* Shelly readings                                                         *)
(***************************************************************************)
\* em_status: [present, total_act_power]
readTotalPowerW(em_status) ==
    IF ~em_status.present \/ ~isNumber(em_status.total_act_power)
    THEN Null
    ELSE em_status.total_act_power

NoTotals == [ok |-> FALSE, total_energy_wh |-> Null, total_energy_ret_wh |-> Null]

\* emdata_status: [present, total_act, total_act_ret]
readTotalsWh(emdata_status) ==
    IF ~emdata_status.present THEN NoTotals
    ELSE IF ~isNumber(emdata_status.total_act) \/ ~isNumber(emdata_status.total_act_ret)
    THEN NoTotals
    ELSE [ok |-> TRUE,
          total_energy_wh |-> emdata_status.total_act,
          total_energy_ret_wh |-> emdata_status.total_act_ret]

(***************************************************************************)
(* Integration & correction logic                                          *)
(***************************************************************************)
\* Variant: the export branch adds energy_wh without negating it
integratePowerUnsigned(s, now_ms, em_status) ==
    IF s.last_integration_uptime_ms = NullMs
    THEN [s EXCEPT !.last_integration_uptime_ms = now_ms]
    ELSE
      LET dt_ms == now_ms - s.last_integration_uptime_ms IN
      IF dt_ms <= 0 THEN s
      ELSE
        LET s1 == [s EXCEPT !.last_integration_uptime_ms = now_ms]
            power_w == readTotalPowerW(em_status)
        IN
        IF ~isNumber(power_w) THEN s1
        ELSE
          LET energy_wh == Mul(power_w, Rat(dt_ms, MS_PER_HOUR)) IN
          IF Leq(Zero, energy_wh)
          THEN [s1 EXCEPT !.delta_energy_integrate_wh = Add(@, energy_wh)]
          ELSE [s1 EXCEPT !.delta_energy_ret_integrate_wh = Add(@, energy_wh)]

\* Variant: no test of the anchor; JavaScript computes now_ms - null as now_ms
integratePowerNoAnchorTest(s, now_ms, em_status) ==
    LET anchor == IF s.last_integration_uptime_ms = NullMs
                  THEN 0 ELSE s.last_integration_uptime_ms
        dt_ms == now_ms - anchor
    IN
    IF dt_ms <= 0 THEN s
    ELSE
      LET s1 == [s EXCEPT !.last_integration_uptime_ms = now_ms]
          power_w == readTotalPowerW(em_status)
      IN
      IF ~isNumber(power_w) THEN s1
      ELSE
        LET energy_wh == Mul(power_w, Rat(dt_ms, MS_PER_HOUR)) IN
        IF Leq(Zero, energy_wh)
        THEN [s1 EXCEPT !.delta_energy_integrate_wh = Add(@, energy_wh)]
        ELSE [s1 EXCEPT !.delta_energy_ret_integrate_wh = Add(@, Neg(energy_wh))]

\* Variant: every tick counts as the nominal interval, whatever time has passed
integratePowerNominal(s, now_ms, em_status) ==
    IF s.last_integration_uptime_ms = NullMs
    THEN [s EXCEPT !.last_integration_uptime_ms = now_ms]
    ELSE
      LET dt_ms == now_ms - s.last_integration_uptime_ms IN
      IF dt_ms <= 0 THEN s
      ELSE
        LET s1 == [s EXCEPT !.last_integration_uptime_ms = now_ms]
            power_w == readTotalPowerW(em_status)
        IN
        IF ~isNumber(power_w) THEN s1
        ELSE
          LET energy_wh == Mul(power_w, Rat(INTEGRATION_TICK_MS, MS_PER_HOUR)) IN
          IF Leq(Zero, energy_wh)
          THEN [s1 EXCEPT !.delta_energy_integrate_wh = Add(@, energy_wh)]
          ELSE [s1 EXCEPT !.delta_energy_ret_integrate_wh = Add(@, Neg(energy_wh))]

\* Variant: the integrated energy goes to the lifetime totals as well
integratePowerIntoLifetime(s, now_ms, em_status) ==
    IF s.last_integration_uptime_ms = NullMs
    THEN [s EXCEPT !.last_integration_uptime_ms = now_ms]
    ELSE
      LET dt_ms == now_ms - s.last_integration_uptime_ms IN
      IF dt_ms <= 0 THEN s
      ELSE
        LET s1 == [s EXCEPT !.last_integration_uptime_ms = now_ms]
            power_w == readTotalPowerW(em_status)
        IN
        IF ~isNumber(power_w) THEN s1
        ELSE
          LET energy_wh == Mul(power_w, Rat(dt_ms, MS_PER_HOUR)) IN
          IF Leq(Zero, energy_wh)
          THEN [s1 EXCEPT !.delta_energy_integrate_wh = Add(@, energy_wh),
                          !.net_metered_energy_wh = Add(@, energy_wh)]
          ELSE [s1 EXCEPT !.delta_energy_ret_integrate_wh = Add(@, Neg(energy_wh)),
                          !.net_metered_energy_ret_wh = Add(@, Neg(energy_wh))]

\* Variant: the anchor advances only when a power sample was read
integratePowerAnchorAfterRead(s, now_ms, em_status) ==
    IF s.last_integration_uptime_ms = NullMs
    THEN [s EXCEPT !.last_integration_uptime_ms = now_ms]
    ELSE
      LET dt_ms == now_ms - s.last_integration_uptime_ms IN
      IF dt_ms <= 0 THEN s
      ELSE
        LET s1 == [s EXCEPT !.last_integration_uptime_ms = now_ms]
            power_w == readTotalPowerW(em_status)
        IN
        IF ~isNumber(power_w) THEN s
        ELSE
          LET energy_wh == Mul(power_w, Rat(dt_ms, MS_PER_HOUR)) IN
          IF Leq(Zero, energy_wh)
          THEN [s1 EXCEPT !.delta_energy_integrate_wh = Add(@, energy_wh)]
          ELSE [s1 EXCEPT !.delta_energy_ret_integrate_wh = Add(@, Neg(energy_wh))]

\* Variant: the anchor is set before dt_ms is tested
integratePowerAnchorFirst(s, now_ms, em_status) ==
    IF s.last_integration_uptime_ms = NullMs
    THEN [s EXCEPT !.last_integration_uptime_ms = now_ms]
    ELSE
      LET dt_ms == now_ms - s.last_integration_uptime_ms
          s1 == [s EXCEPT !.last_integration_uptime_ms = now_ms]
      IN
      IF dt_ms <= 0 THEN s1
      ELSE
        LET power_w == readTotalPowerW(em_status) IN
        IF ~isNumber(power_w) THEN s1
        ELSE
          LET energy_wh == Mul(power_w, Rat(dt_ms, MS_PER_HOUR)) IN
          IF Leq(Zero, energy_wh)
          THEN [s1 EXCEPT !.delta_energy_integrate_wh = Add(@, energy_wh)]
          ELSE [s1 EXCEPT !.delta_energy_ret_integrate_wh = Add(@, Neg(energy_wh))]

integratePower(s, now_ms, em_status) ==
    IF s.last_integration_uptime_ms = NullMs
    THEN [s EXCEPT !.last_integration_uptime_ms = now_ms]
    ELSE
      LET dt_ms == now_ms - s.last_integration_uptime_ms IN
      IF dt_ms <= 0 THEN s
      ELSE
        LET s1 == [s EXCEPT !.last_integration_uptime_ms = now_ms]
            power_w == readTotalPowerW(em_status)
        IN
        IF ~isNumber(power_w) THEN s1
        ELSE
          LET energy_wh == Mul(power_w, Rat(dt_ms, MS_PER_HOUR)) IN
          IF Leq(Zero, energy_wh)
          THEN [s1 EXCEPT !.delta_energy_integrate_wh = Add(@, energy_wh)]
          ELSE [s1 EXCEPT !.delta_energy_ret_integrate_wh = Add(@, Neg(energy_wh))]

\* Variant: the baseline is established without a reset of the window
startNewWindowBaselineKeepWindow(s, now_ms, total_energy_wh, total_energy_ret_wh) ==
    IF ~isNumber(s.baseline_total_energy_wh) \/ ~isNumber(s.baseline_total_energy_ret_wh)
    THEN [s EXCEPT !.baseline_total_energy_wh = total_energy_wh,
                   !.baseline_total_energy_ret_wh = total_energy_ret_wh,
                   !.last_seen_total_energy_wh = total_energy_wh,
                   !.last_seen_total_energy_ret_wh = total_energy_ret_wh,
                   !.totals_changed_since_last_correction = FALSE,
                   !.totals_last_change_uptime_ms = now_ms,
                   !.last_correction_uptime_ms = now_ms]
    ELSE s

startNewWindowBaselineIfNeeded(s, now_ms, total_energy_wh, total_energy_ret_wh) ==
    IF ~isNumber(s.baseline_total_energy_wh) \/ ~isNumber(s.baseline_total_energy_ret_wh)
    THEN [s EXCEPT !.baseline_total_energy_wh = total_energy_wh,
                   !.baseline_total_energy_ret_wh = total_energy_ret_wh,
                   !.last_seen_total_energy_wh = total_energy_wh,
                   !.last_seen_total_energy_ret_wh = total_energy_ret_wh,
                   !.totals_changed_since_last_correction = FALSE,
                   !.totals_last_change_uptime_ms = now_ms,
                   !.last_correction_uptime_ms = now_ms,
                   !.delta_energy_integrate_wh = Zero,
                   !.delta_energy_ret_integrate_wh = Zero]
    ELSE s

\* Variant: only the first change of a window stamps the change time
updateChangeDetectionFirstOnly(s, now_ms, total_energy_wh, total_energy_ret_wh) ==
    IF ~isNumber(s.last_seen_total_energy_wh) \/ ~isNumber(s.last_seen_total_energy_ret_wh)
    THEN [s EXCEPT !.last_seen_total_energy_wh = total_energy_wh,
                   !.last_seen_total_energy_ret_wh = total_energy_ret_wh]
    ELSE IF total_energy_wh # s.last_seen_total_energy_wh
            \/ total_energy_ret_wh # s.last_seen_total_energy_ret_wh
    THEN [s EXCEPT !.totals_changed_since_last_correction = TRUE,
                   !.totals_last_change_uptime_ms =
                       IF s.totals_changed_since_last_correction THEN @ ELSE now_ms,
                   !.last_seen_total_energy_wh = total_energy_wh,
                   !.last_seen_total_energy_ret_wh = total_energy_ret_wh]
    ELSE s

updateChangeDetection(s, now_ms, total_energy_wh, total_energy_ret_wh) ==
    IF ~isNumber(s.last_seen_total_energy_wh) \/ ~isNumber(s.last_seen_total_energy_ret_wh)
    THEN [s EXCEPT !.last_seen_total_energy_wh = total_energy_wh,
                   !.last_seen_total_energy_ret_wh = total_energy_ret_wh]
    ELSE IF total_energy_wh # s.last_seen_total_energy_wh
            \/ total_energy_ret_wh # s.last_seen_total_energy_ret_wh
    THEN [s EXCEPT !.totals_changed_since_last_correction = TRUE,
                   !.totals_last_change_uptime_ms = now_ms,
                   !.last_seen_total_energy_wh = total_energy_wh,
                   !.last_seen_total_energy_ret_wh = total_energy_ret_wh]
    ELSE s

\* Variant: the raw ratio, without the 0.001 guard and the clamp
correctionFactorRaw(delta_energy_sum, delta_energy_integrate_sum) ==
    IF Lt(ENERGY_EPSILON_WH, MathAbs(delta_energy_integrate_sum))
    THEN Div(delta_energy_sum, delta_energy_integrate_sum)
    ELSE One

\* Variant: the guards without the clamp of line 388
correctionFactorNoClamp(delta_energy_sum, delta_energy_integrate_sum) ==
    IF Lt(ENERGY_EPSILON_WH, MathAbs(delta_energy_integrate_sum))
    THEN LET q == Div(delta_energy_sum, delta_energy_integrate_sum)
         IN  IF Leq(q, FACTOR_GUARD) THEN One ELSE q
    ELSE One

\* Variant: the epsilon guard compares with >= instead of >
correctionFactorGe(delta_energy_sum, delta_energy_integrate_sum) ==
    LET guarded ==
          IF Leq(ENERGY_EPSILON_WH, MathAbs(delta_energy_integrate_sum))
          THEN LET q == Div(delta_energy_sum, delta_energy_integrate_sum)
               IN  IF Leq(q, FACTOR_GUARD) THEN One ELSE q
          ELSE One
    IN  clampMinMax(guarded, FACTOR_MIN, FACTOR_MAX)

\* Variant: a window without meaningful integration gets the lowest factor
correctionFactorFallbackMin(delta_energy_sum, delta_energy_integrate_sum) ==
    LET guarded ==
          IF Lt(ENERGY_EPSILON_WH, MathAbs(delta_energy_integrate_sum))
          THEN LET q == Div(delta_energy_sum, delta_energy_integrate_sum)
               IN  IF Leq(q, FACTOR_GUARD) THEN One ELSE q
          ELSE FACTOR_MIN
    IN  clampMinMax(guarded, FACTOR_MIN, FACTOR_MAX)

\* Variant: without the test of line 380, a small or negative ratio is clamped
correctionFactorNoGuard(delta_energy_sum, delta_energy_integrate_sum) ==
    LET guarded ==
          IF Lt(ENERGY_EPSILON_WH, MathAbs(delta_energy_integrate_sum))
          THEN Div(delta_energy_sum, delta_energy_integrate_sum)
          ELSE One
    IN  clampMinMax(guarded, FACTOR_MIN, FACTOR_MAX)

\* lines 375-388: the factor from the two window deltas
correctionFactor(delta_energy_sum, delta_energy_integrate_sum) ==
    LET guarded ==
          IF isNumber(delta_energy_integrate_sum)
             /\ Lt(ENERGY_EPSILON_WH, MathAbs(delta_energy_integrate_sum))
          THEN LET q == Div(delta_energy_sum, delta_energy_integrate_sum)
                   q1 == IF ~isNumber(q) THEN One ELSE q
               IN  IF Leq(q1, FACTOR_GUARD) THEN One ELSE q1
          ELSE One
    IN  clampMinMax(guarded, FACTOR_MIN, FACTOR_MAX)

\* handle.setValue(value) on the component with the given id; the script does
\* not look at the outcome of the call (ok: the device took the value)
setValue(comps, id, value, ok) ==
    IF ok THEN [comps EXCEPT ![id].value = value] ELSE comps

\* Variant: the correction leaves the baseline of the closed window in place
applyCorrectionIfReadyKeepBaseline(s, now_ms, total_energy_wh, total_energy_ret_wh) ==
    IF ~s.totals_changed_since_last_correction THEN s
    ELSE IF (now_ms - s.totals_last_change_uptime_ms) < STABLE_MS THEN s
    ELSE
      LET delta_total_energy_wh == Sub(total_energy_wh, s.baseline_total_energy_wh)
          delta_total_energy_ret_wh == Sub(total_energy_ret_wh, s.baseline_total_energy_ret_wh)
          delta_energy_sum == Sub(delta_total_energy_wh, delta_total_energy_ret_wh)
          delta_energy_integrate_sum ==
              Sub(s.delta_energy_integrate_wh, s.delta_energy_ret_integrate_wh)
          correction_factor == correctionFactor(delta_energy_sum, delta_energy_integrate_sum)
          imp == Add(s.net_metered_energy_wh,
                     Mul(s.delta_energy_integrate_wh, correction_factor))
          exp == Add(s.net_metered_energy_ret_wh,
                     Mul(s.delta_energy_ret_integrate_wh, correction_factor))
          c1 == IF s.net_metered_energy_handle
                THEN setValue(s.components, NET_METERED_ENERGY_ID, imp, s.set_value_ok[1])
                ELSE s.components
          c2 == IF s.net_metered_energy_ret_handle
                THEN setValue(c1, NET_METERED_ENERGY_RET_ID, exp, s.set_value_ok[2])
                ELSE c1
      IN  [s EXCEPT !.net_metered_energy_wh = imp,
                    !.net_metered_energy_ret_wh = exp,
                    !.components = c2,
                    !.delta_energy_integrate_wh = Zero,
                    !.delta_energy_ret_integrate_wh = Zero,
                    !.totals_changed_since_last_correction = FALSE,
                    !.last_correction_uptime_ms = now_ms,
                    !.last_integration_uptime_ms = now_ms,
                    !.fired = TRUE,
                    !.correction_factor = correction_factor,
                    !.delta_energy_sum = delta_energy_sum]

\* Variant: a total whose write does not take effect keeps its old value
applyCorrectionIfReadyRollback(s, now_ms, total_energy_wh, total_energy_ret_wh) ==
    IF ~s.totals_changed_since_last_correction THEN s
    ELSE IF (now_ms - s.totals_last_change_uptime_ms) < STABLE_MS THEN s
    ELSE
      LET delta_total_energy_wh == Sub(total_energy_wh, s.baseline_total_energy_wh)
          delta_total_energy_ret_wh == Sub(total_energy_ret_wh, s.baseline_total_energy_ret_wh)
          delta_energy_sum == Sub(delta_total_energy_wh, delta_total_energy_ret_wh)
          delta_energy_integrate_sum ==
              Sub(s.delta_energy_integrate_wh, s.delta_energy_ret_integrate_wh)
          correction_factor == correctionFactor(delta_energy_sum, delta_energy_integrate_sum)
          ok1 == s.net_metered_energy_handle /\ s.set_value_ok[1]
          ok2 == s.net_metered_energy_ret_handle /\ s.set_value_ok[2]
          imp == IF ok1
                 THEN Add(s.net_metered_energy_wh,
                          Mul(s.delta_energy_integrate_wh, correction_factor))
                 ELSE s.net_metered_energy_wh
          exp == IF ok2
                 THEN Add(s.net_metered_energy_ret_wh,
                          Mul(s.delta_energy_ret_integrate_wh, correction_factor))
                 ELSE s.net_metered_energy_ret_wh
          c1 == setValue(s.components, NET_METERED_ENERGY_ID, imp, ok1)
          c2 == setValue(c1, NET_METERED_ENERGY_RET_ID, exp, ok2)
      IN  [s EXCEPT !.net_metered_energy_wh = imp,
                    !.net_metered_energy_ret_wh = exp,
                    !.components = c2,
                    !.baseline_total_energy_wh = total_energy_wh,
                    !.baseline_total_energy_ret_wh = total_energy_ret_wh,
                    !.delta_energy_integrate_wh = Zero,
                    !.delta_energy_ret_integrate_wh = Zero,
                    !.totals_changed_since_last_correction = FALSE,
                    !.last_correction_uptime_ms = now_ms,
                    !.last_integration_uptime_ms = now_ms,
                    !.fired = TRUE,
                    !.correction_factor = correction_factor,
                    !.delta_energy_sum = delta_energy_sum]

\* Variant: the quiet time is measured from the integration anchor
applyCorrectionIfReadySinceAnchor(s, now_ms, total_energy_wh, total_energy_ret_wh) ==
    IF ~s.totals_changed_since_last_correction THEN s
    ELSE IF (now_ms - s.last_integration_uptime_ms) < STABLE_MS THEN s
    ELSE
      LET delta_total_energy_wh == Sub(total_energy_wh, s.baseline_total_energy_wh)
          delta_total_energy_ret_wh == Sub(total_energy_ret_wh, s.baseline_total_energy_ret_wh)
          delta_energy_sum == Sub(delta_total_energy_wh, delta_total_energy_ret_wh)
          delta_energy_integrate_sum ==
              Sub(s.delta_energy_integrate_wh, s.delta_energy_ret_integrate_wh)
          correction_factor == correctionFactor(delta_energy_sum, delta_energy_integrate_sum)
          delta_energy_integrate_corrected == Mul(s.delta_energy_integrate_wh, correction_factor)
          delta_energy_ret_integrate_corrected ==
              Mul(s.delta_energy_ret_integrate_wh, correction_factor)
          imp == Add(s.net_metered_energy_wh, delta_energy_integrate_corrected)
          exp == Add(s.net_metered_energy_ret_wh, delta_energy_ret_integrate_corrected)
          c1 == IF s.net_metered_energy_handle
                THEN setValue(s.components, NET_METERED_ENERGY_ID, imp, s.set_value_ok[1])
                ELSE s.components
          c2 == IF s.net_metered_energy_ret_handle
                THEN setValue(c1, NET_METERED_ENERGY_RET_ID, exp, s.set_value_ok[2])
                ELSE c1
      IN  [s EXCEPT !.net_metered_energy_wh = imp,
                    !.net_metered_energy_ret_wh = exp,
                    !.components = c2,
                    !.baseline_total_energy_wh = total_energy_wh,
                    !.baseline_total_energy_ret_wh = total_energy_ret_wh,
                    !.delta_energy_integrate_wh = Zero,
                    !.delta_energy_ret_integrate_wh = Zero,
                    !.totals_changed_since_last_correction = FALSE,
                    !.last_correction_uptime_ms = now_ms,
                    !.last_integration_uptime_ms = now_ms,
                    !.fired = TRUE,
                    !.correction_factor = correction_factor,
                    !.delta_energy_sum = delta_energy_sum]

\* Variant: the factor corrects the window import only
applyCorrectionIfReadyImportOnly(s, now_ms, total_energy_wh, total_energy_ret_wh) ==
    IF ~s.totals_changed_since_last_correction THEN s
    ELSE IF (now_ms - s.totals_last_change_uptime_ms) < STABLE_MS THEN s
    ELSE
      LET delta_total_energy_wh == Sub(total_energy_wh, s.baseline_total_energy_wh)
          delta_total_energy_ret_wh == Sub(total_energy_ret_wh, s.baseline_total_energy_ret_wh)
          delta_energy_sum == Sub(delta_total_energy_wh, delta_total_energy_ret_wh)
          delta_energy_integrate_sum ==
              Sub(s.delta_energy_integrate_wh, s.delta_energy_ret_integrate_wh)
          correction_factor == correctionFactor(delta_energy_sum, delta_energy_integrate_sum)
          delta_energy_integrate_corrected == Mul(s.delta_energy_integrate_wh, correction_factor)
          delta_energy_ret_integrate_corrected == s.delta_energy_ret_integrate_wh
          imp == Add(s.net_metered_energy_wh, delta_energy_integrate_corrected)
          exp == Add(s.net_metered_energy_ret_wh, delta_energy_ret_integrate_corrected)
          c1 == IF s.net_metered_energy_handle
                THEN setValue(s.components, NET_METERED_ENERGY_ID, imp, s.set_value_ok[1])
                ELSE s.components
          c2 == IF s.net_metered_energy_ret_handle
                THEN setValue(c1, NET_METERED_ENERGY_RET_ID, exp, s.set_value_ok[2])
                ELSE c1
      IN  [s EXCEPT !.net_metered_energy_wh = imp,
                    !.net_metered_energy_ret_wh = exp,
                    !.components = c2,
                    !.baseline_total_energy_wh = total_energy_wh,
                    !.baseline_total_energy_ret_wh = total_energy_ret_wh,
                    !.delta_energy_integrate_wh = Zero,
                    !.delta_energy_ret_integrate_wh = Zero,
                    !.totals_changed_since_last_correction = FALSE,
                    !.last_correction_uptime_ms = now_ms,
                    !.last_integration_uptime_ms = now_ms,
                    !.fired = TRUE,
                    !.correction_factor = correction_factor,
                    !.delta_energy_sum = delta_energy_sum]

\* Variant: the next window is anchored at the time of the last change
applyCorrectionIfReadyAnchorAtChange(s, now_ms, total_energy_wh, total_energy_ret_wh) ==
    IF ~s.totals_changed_since_last_correction THEN s
    ELSE IF (now_ms - s.totals_last_change_uptime_ms) < STABLE_MS THEN s
    ELSE
      LET delta_total_energy_wh == Sub(total_energy_wh, s.baseline_total_energy_wh)
          delta_total_energy_ret_wh == Sub(total_energy_ret_wh, s.baseline_total_energy_ret_wh)
          delta_energy_sum == Sub(delta_total_energy_wh, delta_total_energy_ret_wh)
          delta_energy_integrate_sum ==
              Sub(s.delta_energy_integrate_wh, s.delta_energy_ret_integrate_wh)
          correction_factor == correctionFactor(delta_energy_sum, delta_energy_integrate_sum)
          delta_energy_integrate_corrected == Mul(s.delta_energy_integrate_wh, correction_factor)
          delta_energy_ret_integrate_corrected ==
              Mul(s.delta_energy_ret_integrate_wh, correction_factor)
          imp == Add(s.net_metered_energy_wh, delta_energy_integrate_corrected)
          exp == Add(s.net_metered_energy_ret_wh, delta_energy_ret_integrate_corrected)
          c1 == IF s.net_metered_energy_handle
                THEN setValue(s.components, NET_METERED_ENERGY_ID, imp, s.set_value_ok[1])
                ELSE s.components
          c2 == IF s.net_metered_energy_ret_handle
                THEN setValue(c1, NET_METERED_ENERGY_RET_ID, exp, s.set_value_ok[2])
                ELSE c1
      IN  [s EXCEPT !.net_metered_energy_wh = imp,
                    !.net_metered_energy_ret_wh = exp,
                    !.components = c2,
                    !.baseline_total_energy_wh = total_energy_wh,
                    !.baseline_total_energy_ret_wh = total_energy_ret_wh,
                    !.delta_energy_integrate_wh = Zero,
                    !.delta_energy_ret_integrate_wh = Zero,
                    !.totals_changed_since_last_correction = FALSE,
                    !.last_correction_uptime_ms = now_ms,
                    !.last_integration_uptime_ms = s.totals_last_change_uptime_ms,
                    !.fired = TRUE,
                    !.correction_factor = correction_factor,
                    !.delta_energy_sum = delta_energy_sum]

applyCorrectionIfReady(s, now_ms, total_energy_wh, total_energy_ret_wh) ==
    IF ~s.totals_changed_since_last_correction THEN s
    ELSE IF (now_ms - s.totals_last_change_uptime_ms) < STABLE_MS THEN s
    ELSE
      LET delta_total_energy_wh == Sub(total_energy_wh, s.baseline_total_energy_wh)
          delta_total_energy_ret_wh == Sub(total_energy_ret_wh, s.baseline_total_energy_ret_wh)
          delta_energy_sum == Sub(delta_total_energy_wh, delta_total_energy_ret_wh)
          delta_energy_integrate_sum ==
              Sub(s.delta_energy_integrate_wh, s.delta_energy_ret_integrate_wh)
          correction_factor == correctionFactor(delta_energy_sum, delta_energy_integrate_sum)
          delta_energy_integrate_corrected == Mul(s.delta_energy_integrate_wh, correction_factor)
          delta_energy_ret_integrate_corrected ==
              Mul(s.delta_energy_ret_integrate_wh, correction_factor)
          imp == Add(s.net_metered_energy_wh, delta_energy_integrate_corrected)
          exp == Add(s.net_metered_energy_ret_wh, delta_energy_ret_integrate_corrected)
          c1 == IF s.net_metered_energy_handle
                THEN setValue(s.components, NET_METERED_ENERGY_ID, imp, s.set_value_ok[1])
                ELSE s.components
          c2 == IF s.net_metered_energy_ret_handle
                THEN setValue(c1, NET_METERED_ENERGY_RET_ID, exp, s.set_value_ok[2])
                ELSE c1
      IN  [s EXCEPT !.net_metered_energy_wh = imp,
                    !.net_metered_energy_ret_wh = exp,
                    !.components = c2,
                    !.baseline_total_energy_wh = total_energy_wh,
                    !.baseline_total_energy_ret_wh = total_energy_ret_wh,
                    !.delta_energy_integrate_wh = Zero,
                    !.delta_energy_ret_integrate_wh = Zero,
                    !.totals_changed_since_last_correction = FALSE,
                    !.last_correction_uptime_ms = now_ms,
                    !.last_integration_uptime_ms = now_ms,
                    !.fired = TRUE,
                    !.correction_factor = correction_factor,
                    !.delta_energy_sum = delta_energy_sum]

\* Variant: tick() does not establish a missing baseline
observeTotalsNoBaseline(s, now_ms, totals) ==
    IF ~totals.ok THEN s
    ELSE
      LET s2 == updateChangeDetection(s, now_ms, totals.total_energy_wh,
                                      totals.total_energy_ret_wh)
      IN  applyCorrectionIfReady(s2, now_ms, totals.total_energy_wh,
                                 totals.total_energy_ret_wh)

\* Variant: the totals logic runs without the test of the reading
observeTotalsUnchecked(s, now_ms, totals) ==
    LET s1 == startNewWindowBaselineIfNeeded(s, now_ms, totals.total_energy_wh,
                                             totals.total_energy_ret_wh)
        s2 == updateChangeDetection(s1, now_ms, totals.total_energy_wh,
                                    totals.total_energy_ret_wh)
    IN  applyCorrectionIfReady(s2, now_ms, totals.total_energy_wh,
                               totals.total_energy_ret_wh)

\* The statements of tick() after integratePower() (lines 436-441)
observeTotals(s, now_ms, totals) ==
    IF ~totals.ok THEN s
    ELSE
      LET s1 == startNewWindowBaselineIfNeeded(s, now_ms, totals.total_energy_wh,
                                               totals.total_energy_ret_wh)
          s2 == updateChangeDetection(s1, now_ms, totals.total_energy_wh,
                                      totals.total_energy_ret_wh)
      IN  applyCorrectionIfReady(s2, now_ms, totals.total_energy_wh,
                                 totals.total_energy_ret_wh)

\* tick() with its clock readings told apart: integratePower reads the clock
\* at line 292, the totals logic reads it again (lines 326-327, 349, 360)
tickReading(s, now_ms, later_ms, em_status, emdata_status) ==
    observeTotals(integratePower(s, now_ms, em_status), later_ms,
                  readTotalsWh(emdata_status))

tick(s, now_ms, em_status, emdata_status) ==
    observeTotals(integratePower(s, now_ms, em_status), now_ms, readTotalsWh(emdata_status))

(***************************************************************************)
(* Startup sequence                                                        *)
(***************************************************************************)
Absent == [exists |-> FALSE, name_ok |-> FALSE, value |-> Null]

\* Virtual.Add of a persisted number: fails when the RPC fails or the id is taken
createNew(c, rpc) ==
    IF ~c.exists /\ rpc.add
    THEN [exists |-> TRUE, name_ok |-> TRUE, value |-> Zero]
    ELSE c

\* c: the component with this id before the call; rpc: which RPCs succeed
\* (get: Shelly.GetComponents lists it, del: Virtual.Delete, add: Virtual.Add)
ensureVirtualNumberComponent(c, rpc) ==
    LET existing == c.exists /\ rpc.get IN
    IF ~existing THEN createNew(c, rpc)
    ELSE IF ~c.name_ok
    THEN createNew(IF rpc.del THEN Absent ELSE c, rpc)
    ELSE c

\* Variant: the handles are taken, the stored values are not read
loadPersistedHandlesOnly(s) ==
    [s EXCEPT !.net_metered_energy_handle = s.components[NET_METERED_ENERGY_ID].exists,
              !.net_metered_energy_ret_handle = s.components[NET_METERED_ENERGY_RET_ID].exists]

loadPersistedNetMeteredValuesFromVirtualComponents(s) ==
    LET h1 == s.components[NET_METERED_ENERGY_ID].exists
        h2 == s.components[NET_METERED_ENERGY_RET_ID].exists
        v1 == s.components[NET_METERED_ENERGY_ID].value
        v2 == s.components[NET_METERED_ENERGY_RET_ID].value
    IN  [s EXCEPT !.net_metered_energy_handle = h1,
                  !.net_metered_energy_ret_handle = h2,
                  !.net_metered_energy_wh = IF h1 /\ isNumber(v1) THEN v1 ELSE Zero,
                  !.net_metered_energy_ret_wh = IF h2 /\ isNumber(v2) THEN v2 ELSE Zero]

\* start() on a freshly loaded script: the globals have their declared values.
\* The virtual group (lines 469-476) holds no state of the computation.
start(comps, rpc1, rpc2, now_ms, emdata_status) ==
    LET c1 == ensureVirtualNumberComponent(comps[NET_METERED_ENERGY_ID], rpc1)
        c2 == ensureVirtualNumberComponent(comps[NET_METERED_ENERGY_RET_ID], rpc2)
        s0 == InitialGlobals([comps EXCEPT ![NET_METERED_ENERGY_ID] = c1,
                                           ![NET_METERED_ENERGY_RET_ID] = c2])
        s1 == loadPersistedNetMeteredValuesFromVirtualComponents(s0)
        totals == readTotalsWh(emdata_status)
    IN  IF totals.ok
        THEN startNewWindowBaselineIfNeeded(s1, now_ms, totals.total_energy_wh,
                                            totals.total_energy_ret_wh)
        ELSE s1

(***************************************************************************)
(* Bounds and input sets                                                   *)
(***************************************************************************)
MaxTime == 10000

MaxRef == 1

\* Elapsed time between two steps: a duplicate reading, one ms short of the
\* stability wait, the stability wait
DtSet == {0, STABLE_MS - 1, STABLE_MS}

PowerVals == {Num(0), Num(3600), Num(-3600)}

\* Counter readings (Wh): the two counters together hold at most MaxRef
RefPairs == {ab \in (0..MaxRef) \X (0..MaxRef) : ab[1] + ab[2] <= MaxRef}

Em(p) == [present |-> TRUE, total_act_power |-> p]

EmData(a, b) == [present |-> TRUE, total_act |-> a, total_act_ret |-> b]

NoEm == [present |-> FALSE, total_act_power |-> Null]

NoEmData == [present |-> FALSE, total_act |-> Null, total_act_ret |-> Null]

EmStatus == {NoEm, Em(NaN)} \cup {Em(p) : p \in PowerVals}

EmDataStatus ==
    {NoEmData, EmData(NaN, Zero), EmData(Zero, NaN)}
    \cup {EmData(Num(ab[1]), Num(ab[2])) : ab \in RefPairs}

\* One device status for each result the read functions can give
EmChoices ==
    {CHOOSE e \in EmStatus : readTotalPowerW(e) = p :
        p \in {readTotalPowerW(e) : e \in EmStatus}}

EmDataChoices ==
    {CHOOSE e \in EmDataStatus : readTotalsWh(e) = t :
        t \in {readTotalsWh(e) : e \in EmDataStatus}}

Rpc == [get : BOOLEAN, del : BOOLEAN, add : BOOLEAN]

Comp(nameOk, v) == [exists |-> TRUE, name_ok |-> nameOk, value |-> v]

Comps(c1, c2) == (NET_METERED_ENERGY_ID :> c1) @@ (NET_METERED_ENERGY_RET_ID :> c2)

\* What the device holds under number:200 / number:201 before the first start:
\* the two components of an earlier run of the script
InitComponents == { Comps(Comp(TRUE, Num(7)), Comp(TRUE, Num(3))) }

\* ... or anything else: a component of another name, a component that holds
\* no number or a negative one, no component
AnyComponents ==
    { Comps(Comp(TRUE, Num(7)), Comp(TRUE, Num(-5))),
      Comps(Comp(FALSE, Num(7)), Comp(TRUE, NaN)),
      Comps(Absent, Absent) }

\* ev, the record of the last step: kind ("load": script not started, "start",
\* "tick"); power_w, the sample integratePower read at line 304 (null when it
\* returned before); w_imp / w_exp, the window totals after integratePower and
\* before the correction; fired, factor, delta_energy_sum, the correction the
\* tick applied; first, the tick found no anchor, and first_power, the power
\* the device reported to it; zero_sampled, every sample integrated into the
\* window up to this tick was 0 W; zero_window, the same for the window that
\* is open after the step; stored, which of the two totals the correction of
\* this tick wrote to its component; unsaved, which in-memory total holds a
\* correction that no write has carried to its component; caught_up, which
\* total was unsaved and has been written by this tick; dup, the tick found
\* an anchor and dt_ms <= 0; covered, the latest clock reading up to which
\* integratePower has integrated (NullMs: nothing yet); twice, the tick
\* integrated an interval that starts before covered; back, how many clock
\* readings of this run were below the reading before them.
NoEvent ==
    [kind |-> "load", power_w |-> Null, totals_ok |-> FALSE,
     w_imp |-> Zero, w_exp |-> Zero, fired |-> FALSE,
     factor |-> Null, delta_energy_sum |-> Null,
     first |-> FALSE, first_power |-> Null,
     zero_sampled |-> TRUE, zero_window |-> TRUE,
     stored |-> <<FALSE, FALSE>>, unsaved |-> <<FALSE, FALSE>>,
     caught_up |-> <<FALSE, FALSE>>, dup |-> FALSE,
     covered |-> NullMs, twice |-> FALSE, back |-> 0]

(***************************************************************************)
(* Specification                                                           *)
(***************************************************************************)
InitWith(comps) ==
    /\ components \in comps
    /\ net_metered_energy_handle = FALSE
    /\ net_metered_energy_ret_handle = FALSE
    /\ net_metered_energy_wh = Zero
    /\ net_metered_energy_ret_wh = Zero
    /\ delta_energy_integrate_wh = Zero
    /\ delta_energy_ret_integrate_wh = Zero
    /\ baseline_total_energy_wh = Null
    /\ baseline_total_energy_ret_wh = Null
    /\ last_seen_total_energy_wh = Null
    /\ last_seen_total_energy_ret_wh = Null
    /\ totals_changed_since_last_correction = FALSE
    /\ totals_last_change_uptime_ms = 0
    /\ last_correction_uptime_ms = 0
    /\ last_integration_uptime_ms = NullMs
    /\ uptime = 0
    /\ ev = NoEvent

\* The script is started, or stopped and started again: a fresh script instance
\* runs start() to the end, where it sets the tick timer.
StartWith(rpc1, rpc2, emdata_status) ==
    /\ \E s \in {start(components, rpc1, rpc2, uptime, emdata_status)} : SetGlobals(s)
    /\ uptime' = uptime
    /\ ev' = [NoEvent EXCEPT !.kind = "start",
                             !.totals_ok = readTotalsWh(emdata_status).ok]

\* One representative RPC outcome for each component the ensure call can leave
RpcChoices(c) ==
    {CHOOSE r \in Rpc : ensureVirtualNumberComponent(c, r) = c1 :
        c1 \in {ensureVirtualNumberComponent(c, r) : r \in Rpc}}

Start ==
    \E rpc1 \in RpcChoices(components[NET_METERED_ENERGY_ID]),
       rpc2 \in RpcChoices(components[NET_METERED_ENERGY_RET_ID]),
       emdata_status \in EmDataChoices :
        StartWith(rpc1, rpc2, emdata_status)

\* The timer fires and tick() runs to the end. integratePower reads the clock
\* as now_ms, the totals logic as later_ms; uptime holds the last reading.
\* set_value_ok: the outcome of the two setValue calls, should it make them
TickReading(now_ms, later_ms, em_status, emdata_status, set_value_ok) ==
    \E s1 \in {integratePower(Globals, now_ms, em_status)},
       s2 \in {tickReading([Globals EXCEPT !.set_value_ok = set_value_ok],
                           now_ms, later_ms, em_status, emdata_status)} :
    LET integrated == last_integration_uptime_ms # NullMs
                      /\ now_ms - last_integration_uptime_ms > 0
        stored == <<s2.fired /\ net_metered_energy_handle /\ set_value_ok[1],
                    s2.fired /\ net_metered_energy_ret_handle /\ set_value_ok[2]>>
        first == last_integration_uptime_ms = NullMs
        sample == IF ~first /\ now_ms - last_integration_uptime_ms > 0
                  THEN readTotalPowerW(em_status)
                  ELSE Null
        zero_sampled == ev.zero_window /\ sample \in {Null, Zero}
        rebased == readTotalsWh(emdata_status).ok
                   /\ (~isNumber(baseline_total_energy_wh)
                       \/ ~isNumber(baseline_total_energy_ret_wh))
    IN  /\ ev.kind # "load"
        /\ SetGlobals(s2)
        /\ uptime' = later_ms
        /\ ev' = [kind |-> "tick",
                  power_w |-> sample,
                  totals_ok |-> readTotalsWh(emdata_status).ok,
                  w_imp |-> s1.delta_energy_integrate_wh,
                  w_exp |-> s1.delta_energy_ret_integrate_wh,
                  fired |-> s2.fired,
                  factor |-> s2.correction_factor,
                  delta_energy_sum |-> s2.delta_energy_sum,
                  first |-> first,
                  first_power |-> IF first THEN readTotalPowerW(em_status) ELSE Null,
                  zero_sampled |-> zero_sampled,
                  zero_window |-> s2.fired \/ rebased \/ zero_sampled,
                  stored |-> stored,
                  unsaved |-> IF s2.fired
                              THEN <<~stored[1], ~stored[2]>>
                              ELSE ev.unsaved,
                  caught_up |-> <<stored[1] /\ ev.unsaved[1],
                                  stored[2] /\ ev.unsaved[2]>>,
                  dup |-> ~first /\ now_ms - last_integration_uptime_ms <= 0,
                  covered |-> IF integrated /\ now_ms > ev.covered
                              THEN now_ms
                              ELSE ev.covered,
                  twice |-> integrated /\ last_integration_uptime_ms < ev.covered,
                  back |-> ev.back + (IF now_ms < uptime THEN 1 ELSE 0)
                                   + (IF later_ms < now_ms THEN 1 ELSE 0)]

\* ... dt ms after the previous step, with one clock reading for the whole tick
TickStoring(dt, em_status, emdata_status, set_value_ok) ==
    TickReading(uptime + dt, uptime + dt, em_status, emdata_status, set_value_ok)

\* ... with a device that takes every value
TickWith(dt, em_status, emdata_status) ==
    TickStoring(dt, em_status, emdata_status, <<TRUE, TRUE>>)

\* ... within the time the model covers
TickWithin(dt, em_status, emdata_status) ==
    /\ uptime + dt <= MaxTime
    /\ TickWith(dt, em_status, emdata_status)

Tick ==
    \E dt \in DtSet, em_status \in EmChoices, emdata_status \in EmDataChoices :
        TickWithin(dt, em_status, emdata_status)

Init == InitWith(InitComponents)

Next == Start \/ Tick

Spec == Init /\ [][Next]_vars

\* The same script on a device whose component store is arbitrary and whose
\* RPCs may fail; fewer tick inputs.
TickStore ==
    \E dt \in {0, STABLE_MS}, em_status \in {Em(Num(3600)), Em(Num(-3600))},
       emdata_status \in EmDataChoices :
        TickWithin(dt, em_status, emdata_status)

NextStore == Start \/ TickStore

SpecStore == InitWith(AnyComponents) /\ [][NextStore]_vars

\* The same script on a device that may refuse a value: the components exist
\* or cannot be created, and each setValue call takes effect or not.
FailRefs == {NoEmData, EmData(Zero, Zero), EmData(One, Zero)}

StartFail ==
    \E rpc1 \in RpcChoices(components[NET_METERED_ENERGY_ID]),
       rpc2 \in RpcChoices(components[NET_METERED_ENERGY_RET_ID]),
       emdata_status \in FailRefs :
        StartWith(rpc1, rpc2, emdata_status)

TickFail ==
    \E dt \in {0, STABLE_MS}, em_status \in {Em(Num(3600)), Em(Num(-3600))},
       emdata_status \in FailRefs, set_value_ok \in BOOLEAN \X BOOLEAN :
        /\ uptime + dt <= MaxTime
        /\ TickStoring(dt, em_status, emdata_status, set_value_ok)

InitFail == InitWith(InitComponents \cup {Comps(Absent, Absent)})

NextFail == StartFail \/ TickFail

SpecFail == InitFail /\ [][NextFail]_vars

(***************************************************************************)
(* The closing of a window.  The script runs in the middle of a window:    *)
(* the baseline is (100, 100) Wh, the reference has changed at uptime 0    *)
(* and the window totals are any of WinPairs.  integratePower adds         *)
(* power * dt / 3600000 for any power and dt, so every non-negative window *)
(* total is one the running script can hold.                               *)
(***************************************************************************)
\* Window totals (import, export) in Wh
WinPairs ==
    { <<Zero, Zero>>, <<Rat(1, 2000), Zero>>, <<Rat(1, 50), Zero>>, <<One, Zero>>,
      <<Num(50), Zero>>, <<Zero, One>>, <<Zero, Num(50)>>,
      <<Num(50), Num(50)>>, <<Rat(100001, 2000), Num(50)>>,
      <<Rat(50001, 1000), Num(50)>>, <<Rat(25001, 500), Num(50)>>,
      <<Num(50), Rat(50001, 1000)>> }

\* Reference readings (import, export) in Wh around the baseline (100, 100)
WinRefs ==
    { <<Num(100), Num(100)>>, <<Rat(4001, 40), Num(100)>>, <<Rat(2001, 20), Num(100)>>,
      <<Num(101), Num(100)>>, <<Num(110), Num(100)>>, <<Num(150), Num(100)>>,
      <<Num(100), Num(101)>>, <<Num(100), Num(150)>>, <<Num(99), Num(100)>>,
      <<Num(101), Num(101)>> }

InitWindow ==
    /\ components = Comps(Comp(TRUE, Num(7)), Comp(TRUE, Num(3)))
    /\ net_metered_energy_handle = TRUE
    /\ net_metered_energy_ret_handle = TRUE
    /\ net_metered_energy_wh = Num(7)
    /\ net_metered_energy_ret_wh = Num(3)
    /\ \E w \in WinPairs :
          /\ delta_energy_integrate_wh = w[1]
          /\ delta_energy_ret_integrate_wh = w[2]
    /\ baseline_total_energy_wh = Num(100)
    /\ baseline_total_energy_ret_wh = Num(100)
    /\ \E r \in WinRefs :
          /\ last_seen_total_energy_wh = r[1]
          /\ last_seen_total_energy_ret_wh = r[2]
    /\ totals_changed_since_last_correction = TRUE
    /\ totals_last_change_uptime_ms = 0
    /\ last_correction_uptime_ms = 0
    /\ last_integration_uptime_ms = 0
    /\ uptime = 0
    /\ ev = [NoEvent EXCEPT
                !.kind = "tick", !.totals_ok = TRUE,
                !.w_imp = delta_energy_integrate_wh,
                !.w_exp = delta_energy_ret_integrate_wh,
                !.zero_sampled = (delta_energy_integrate_wh = Zero
                                  /\ delta_energy_ret_integrate_wh = Zero),
                !.zero_window = (delta_energy_integrate_wh = Zero
                                 /\ delta_energy_ret_integrate_wh = Zero)]

TickWindow ==
    \E dt \in {STABLE_MS}, em_status \in {NoEm, Em(Num(3600))},
       emdata_status \in {NoEmData} \cup {EmData(r[1], r[2]) : r \in WinRefs} :
        TickWithin(dt, em_status, emdata_status)

NextWindow == TickWindow

SpecWindow == InitWindow /\ [][NextWindow]_vars

(***************************************************************************)
(* A day in the life of one window.  The components hold 1000 and 500 Wh,  *)
(* the counters read (2000, 800) Wh at start.  The first tick comes one    *)
(* timer interval after the start; then the device reports +1000 W for T   *)
(* ms (T = 1800 or T = 1 800 000) in ticks of T/6, T/3 or T/2 ms, the tick *)
(* that completes T reads the counters at (2001, 800), and they stay there *)
(* while further ticks (1000, 2500 or 5000 ms apart, with no sample, 0 W   *)
(* or +1000 W) wait for the correction.                                    *)
(***************************************************************************)
E2EComponents == Comps(Comp(TRUE, Num(1000)), Comp(TRUE, Num(500)))

E2ERpcOk == [get |-> TRUE, del |-> TRUE, add |-> TRUE]

E2EBaseline == EmData(Num(2000), Num(800))

E2EChanged == EmData(Num(2001), Num(800))

E2EPower == Em(Num(1000))

E2EDurations == {1800, 1800 * 1000}

E2ESteps(T) == {T \div 6, T \div 3, T \div 2}

E2EWaitSteps == {1000, 2500, STABLE_MS}

E2EStart ==
    /\ ev.kind = "load"
    /\ StartWith(E2ERpcOk, E2ERpcOk, E2EBaseline)

E2EFirstTick ==
    /\ ev.kind = "start"
    /\ \E em_status \in {NoEm, E2EPower} :
          TickWith(INTEGRATION_TICK_MS, em_status, E2EBaseline)

E2EIntegrate ==
    \E T \in E2EDurations : \E dt \in E2ESteps(T) :
        LET elapsed == uptime - INTEGRATION_TICK_MS IN
        /\ ev.kind = "tick"
        /\ ~totals_changed_since_last_correction
        /\ last_correction_uptime_ms = 0
        /\ elapsed % (T \div 6) = 0
        /\ elapsed + dt <= T
        /\ TickWith(dt, E2EPower,
                    IF elapsed + dt = T THEN E2EChanged ELSE E2EBaseline)

E2EWait ==
    /\ totals_changed_since_last_correction
    /\ \E dt \in E2EWaitSteps, em_status \in {NoEm, Em(Zero), E2EPower} :
          TickWith(dt, em_status, E2EChanged)

InitE2E == InitWith({E2EComponents})

NextE2E == E2EStart \/ E2EFirstTick \/ E2EIntegrate \/ E2EWait

SpecE2E == InitE2E /\ [][NextE2E]_vars

(***************************************************************************)
(* Claims                                                                  *)
(***************************************************************************)
(***************************************************************************)
(* The running script under its repeating timer.  start() ran once; the    *)
(* timer set at line 486 calls tick() every INTEGRATION_TICK_MS, and a     *)
(* late timer call finds more time elapsed.  The clock advances with every *)
(* tick, and the timer never stops: weak fairness of the tick.             *)
(***************************************************************************)
MaxLive == 11000

\* Elapsed time between two timer calls
LiveDt == {INTEGRATION_TICK_MS, STABLE_MS}

LiveRefs == {NoEmData, EmData(Zero, Zero), EmData(One, Zero)}

StartLive ==
    /\ ev.kind = "load"
    /\ \E emdata_status \in LiveRefs :
          StartWith([get |-> TRUE, del |-> TRUE, add |-> TRUE],
                    [get |-> TRUE, del |-> TRUE, add |-> TRUE], emdata_status)

TickLive ==
    \E dt \in LiveDt, em_status \in {Em(Num(3600))}, emdata_status \in LiveRefs :
        /\ uptime + dt <= MaxLive
        /\ TickWith(dt, em_status, emdata_status)

NextLive == StartLive \/ TickLive

\* The repeating timer: in the started script the next call of tick() comes,
\* at a later clock reading.  Only a tick changes the clock, so a TimerLive
\* step is a TickLive step, and the timer is enabled when TickLive is.
TimerLive ==
    /\ ev.kind # "load"
    /\ \E dt \in LiveDt : uptime + dt <= MaxLive /\ uptime' = uptime + dt

SpecLive == Init /\ [][NextLive]_vars /\ WF_uptime(TimerLive)

(***************************************************************************)
(* The running script under any clock.  Every getUptimeMs() call is a      *)
(* reading of its own: tick() reads the clock in integratePower and again  *)
(* in the totals logic, and a reading may equal the one before it, lie     *)
(* after it, or (at most MaxBack times in a run) lie before it.            *)
(***************************************************************************)
MaxClock == 2

MaxBack == 1

\* Clock readings
ClockVals == {k * STABLE_MS : k \in 0..MaxClock}

ClockRefs == {NoEmData, EmData(Zero, Zero), EmData(One, Zero)}

StartClock ==
    /\ ev.kind = "load"
    /\ \E emdata_status \in ClockRefs :
          StartWith([get |-> TRUE, del |-> TRUE, add |-> TRUE],
                    [get |-> TRUE, del |-> TRUE, add |-> TRUE], emdata_status)

TickClock ==
    \E now_ms \in ClockVals, later_ms \in ClockVals,
       em_status \in {Em(Num(3600))}, emdata_status \in ClockRefs :
        /\ ev.back + (IF now_ms < uptime THEN 1 ELSE 0)
                   + (IF later_ms < now_ms THEN 1 ELSE 0) <= MaxBack
        /\ TickReading(now_ms, later_ms, em_status, emdata_status, <<TRUE, TRUE>>)

NextClock == StartClock \/ TickClock

SpecClock == Init /\ [][NextClock]_vars

IsTickStep == ev'.kind = "tick"

\* C1: over any sequence of ticks the in-memory lifetime import and export
\* totals never decrease from one tick to the next.
C1_LifetimeMonotone ==
    [][IsTickStep =>
         /\ Leq(net_metered_energy_wh, net_metered_energy_wh')
         /\ Leq(net_metered_energy_ret_wh, net_metered_energy_ret_wh')]_vars

\* A correction has just closed a window that holds import and export energy
\* while the reference counters ran backward (negative net reference delta).
C1_Witness ==
    /\ ev.kind = "tick" /\ ev.fired
    /\ Lt(ev.delta_energy_sum, Zero)
    /\ Lt(Zero, ev.w_imp) /\ Lt(Zero, ev.w_exp)
    /\ Lt(Num(7), net_metered_energy_wh)

IsStartStep == ev'.kind = "start"

\* C2: after a restart at any point the loaded lifetime totals are not lower
\* than the lifetime totals the script held before the restart.
C2_RestartMonotone ==
    [][(ev.kind # "load" /\ IsStartStep) =>
         /\ Leq(net_metered_energy_wh, net_metered_energy_wh')
         /\ Leq(net_metered_energy_ret_wh, net_metered_energy_ret_wh')]_vars

\* C3 as stated: the four totals are never negative, whatever is loaded.
C3_AllNonNegative ==
    /\ Leq(Zero, net_metered_energy_wh)
    /\ Leq(Zero, net_metered_energy_ret_wh)
    /\ Leq(Zero, delta_energy_integrate_wh)
    /\ Leq(Zero, delta_energy_ret_integrate_wh)

\* C3 (amended): both window totals are never negative, and a lifetime total
\* is never negative unless a negative value was loaded into it at startup:
\* a start leaves it >= 0 or equal to the negative value its component holds,
\* and no tick turns a non-negative lifetime total negative, whatever the sign
\* of the power samples and reference deltas.
C3_NonNegativeUnlessLoaded ==
    [][/\ Leq(Zero, delta_energy_integrate_wh')
       /\ Leq(Zero, delta_energy_ret_integrate_wh')
       /\ IsStartStep =>
            /\ \/ Leq(Zero, net_metered_energy_wh')
               \/ /\ components'[NET_METERED_ENERGY_ID].exists
                  /\ net_metered_energy_wh' = components'[NET_METERED_ENERGY_ID].value
            /\ \/ Leq(Zero, net_metered_energy_ret_wh')
               \/ /\ components'[NET_METERED_ENERGY_RET_ID].exists
                  /\ net_metered_energy_ret_wh' = components'[NET_METERED_ENERGY_RET_ID].value
       /\ IsTickStep =>
            /\ Leq(Zero, net_metered_energy_wh) => Leq(Zero, net_metered_energy_wh')
            /\ Leq(Zero, net_metered_energy_ret_wh) => Leq(Zero, net_metered_energy_ret_wh')]_vars

\* A correction has folded a window with export energy (negative power) and a
\* negative net reference delta into non-negative lifetime totals.
C3_Witness ==
    /\ ev.kind = "tick" /\ ev.fired
    /\ Lt(ev.delta_energy_sum, Zero)
    /\ Lt(Zero, ev.w_exp)
    /\ Lt(Zero, net_metered_energy_ret_wh)
    /\ Leq(Zero, net_metered_energy_wh)

\* The tick read a reference pair that differs from the last-seen pair
RefDiffers ==
    /\ ev'.totals_ok
    /\ isNumber(last_seen_total_energy_wh) /\ isNumber(last_seen_total_energy_ret_wh)
    /\ \/ last_seen_total_energy_wh' # last_seen_total_energy_wh
       \/ last_seen_total_energy_ret_wh' # last_seen_total_energy_ret_wh

\* C4: a correction fires in a tick only if the changed flag is set and at
\* least 5000 ms have passed since the most recent tick whose reference
\* reading differed from last-seen; every further change restarts the wait
\* (it stamps the change time and fires nothing); with the flag set and an
\* unchanged reading the correction fires exactly when 5000 ms have passed
\* (4999 ms: none, 5000 ms: correction).
C4_StabilityGate ==
    [][IsTickStep =>
        /\ ev'.fired =>
              /\ totals_changed_since_last_correction
              /\ ~RefDiffers
              /\ uptime' - totals_last_change_uptime_ms >= STABLE_MS
        /\ RefDiffers =>
              /\ totals_changed_since_last_correction'
              /\ totals_last_change_uptime_ms' = uptime'
              /\ ~ev'.fired
        /\ (~RefDiffers /\ isNumber(baseline_total_energy_wh)) =>
              totals_last_change_uptime_ms' = totals_last_change_uptime_ms
        /\ (totals_changed_since_last_correction /\ ev'.totals_ok /\ ~RefDiffers) =>
              (ev'.fired <=> uptime' - totals_last_change_uptime_ms >= STABLE_MS)]_vars

\* The reference changed and changed back (net delta 0, so at least two
\* changes), and the correction fired exactly 5000 ms after the last change.
C4_Witness ==
    /\ ev.kind = "tick" /\ ev.fired
    /\ ev.delta_energy_sum = Zero
    /\ uptime - totals_last_change_uptime_ms = STABLE_MS

\* After two changes (the reading is back at the baseline) 4999 ms have passed
\* since the last one, a reading was taken, and no correction fired.
C4_WitnessWaiting ==
    /\ ev.kind = "tick" /\ ~ev.fired /\ ev.totals_ok
    /\ totals_changed_since_last_correction
    /\ last_seen_total_energy_wh = baseline_total_energy_wh
    /\ last_seen_total_energy_ret_wh = baseline_total_energy_ret_wh
    /\ uptime - totals_last_change_uptime_ms = STABLE_MS - 1

\* The window net and reference net of the correction a step performed
IntNet(e) == Sub(e.w_imp, e.w_exp)

RefNet(e) == e.delta_energy_sum

\* The factor of every correction lies in [0.1, 10], each lifetime total grows
\* by between 0.1 and 10 times its window total, a window with
\* ref_net = 50 * int_net gets exactly 10 and one with int_net = 50 * ref_net
\* exactly 0.1, for the windows that satisfy Applies.
FactorClamp(Applies(_)) ==
    ev'.fired =>
        LET e == ev'
            grown == Sub(net_metered_energy_wh', net_metered_energy_wh)
            grown_ret == Sub(net_metered_energy_ret_wh', net_metered_energy_ret_wh)
        IN  /\ Leq(Rat(1, 10), e.factor) /\ Leq(e.factor, Num(10))
            /\ Leq(Mul(Rat(1, 10), e.w_imp), grown) /\ Leq(grown, Mul(Num(10), e.w_imp))
            /\ Leq(Mul(Rat(1, 10), e.w_exp), grown_ret)
            /\ Leq(grown_ret, Mul(Num(10), e.w_exp))
            /\ (Applies(e) /\ RefNet(e) = Mul(Num(50), IntNet(e))) => e.factor = Num(10)
            /\ (Applies(e) /\ IntNet(e) = Mul(Num(50), RefNet(e))) => e.factor = Rat(1, 10)

NonZeroWindow(e) == IntNet(e) # Zero /\ RefNet(e) # Zero

AboveEpsilon(e) == Lt(Rat(1, 1000), MathAbs(IntNet(e)))

\* C5 as stated: the factor lies in [0.1, 10], each lifetime total grows by
\* 0.1 to 10 times its window total, and every window whose reference net is
\* 50 times its (non-zero) integrated net gets exactly 10.0, every window whose
\* integrated net is 50 times its (non-zero) reference net exactly 0.1.
C5_FactorClampAnyWindow == [][FactorClamp(NonZeroWindow)]_vars

\* C5 (amended): the same, the two exact factors for windows with
\* |int_net| > 0.001 Wh.
C5_FactorClamp == [][FactorClamp(AboveEpsilon)]_vars

\* A correction closed a window of 0.02 Wh against a reference net of 50 times
\* as much and applied 10.
C5_Witness ==
    /\ ev.kind = "tick" /\ ev.fired
    /\ IntNet(ev) = Rat(1, 50)
    /\ RefNet(ev) = One
    /\ ev.factor = Num(10)

\* A correction closed a window of 50 Wh against a reference net of 1 Wh and
\* applied 0.1.
C5_WitnessLow ==
    /\ ev.kind = "tick" /\ ev.fired
    /\ IntNet(ev) = Num(50)
    /\ RefNet(ev) = One
    /\ ev.factor = Rat(1, 10)

\* C6: a correction that fires with |window import - window export| <= 0.001 Wh
\* applies exactly 1.0 whatever the reference net is, and adds exactly the
\* uncorrected window totals to the lifetime totals.
C6_EpsilonGuard ==
    [][(ev'.fired /\ Leq(MathAbs(IntNet(ev')), Rat(1, 1000))) =>
         /\ ev'.factor = One
         /\ net_metered_energy_wh' = Add(net_metered_energy_wh, ev'.w_imp)
         /\ net_metered_energy_ret_wh' = Add(net_metered_energy_ret_wh, ev'.w_exp)]_vars

\* A correction closed a window whose totals are both above 50 Wh and 0.0005 Wh
\* apart, against a non-zero reference net.
C6_Witness ==
    /\ ev.kind = "tick" /\ ev.fired
    /\ IntNet(ev) = Rat(1, 2000)
    /\ Leq(Num(50), ev.w_exp)
    /\ RefNet(ev) # Zero
    /\ ev.factor = One

\* C7: while every power sample integrated into a window is 0 W the window
\* totals are {0, 0} at every tick of the window, and the correction that
\* closes such a window applies 1.0 and leaves both lifetime totals as they
\* were, whatever the reference delta is.
C7_ZeroPowerIdempotence ==
    [][/\ ev'.zero_window =>
             /\ delta_energy_integrate_wh' = Zero
             /\ delta_energy_ret_integrate_wh' = Zero
       /\ (IsTickStep /\ ev'.zero_sampled) =>
             /\ ev'.w_imp = Zero /\ ev'.w_exp = Zero
             /\ ev'.fired =>
                   /\ ev'.factor = One
                   /\ net_metered_energy_wh' = net_metered_energy_wh
                   /\ net_metered_energy_ret_wh' = net_metered_energy_ret_wh]_vars

\* A correction closed a window whose samples were all 0 W (the closing tick
\* integrated one of them) against a non-zero reference net.
C7_Witness ==
    /\ ev.kind = "tick" /\ ev.fired /\ ev.zero_sampled
    /\ ev.power_w = Zero
    /\ RefNet(ev) # Zero
    /\ ev.factor = One
    /\ net_metered_energy_wh = Num(7) /\ net_metered_energy_ret_wh = Num(3)

\* C8: the first integration call (anchor unset) records the current time as
\* the anchor and leaves both window totals as they were, whatever the power
\* is (unavailable included).
C8_FirstTickNoOp ==
    [][(IsTickStep /\ last_integration_uptime_ms = NullMs) =>
         /\ ev'.first
         /\ ev'.w_imp = delta_energy_integrate_wh
         /\ ev'.w_exp = delta_energy_ret_integrate_wh
         /\ last_integration_uptime_ms' = uptime']_vars

\* The first tick after a start came at a later uptime with the device
\* reporting 3600 W: it set the anchor and the window is still empty.
C8_Witness ==
    /\ ev.kind = "tick" /\ ev.first
    /\ ev.first_power = Num(3600)
    /\ uptime > 0 /\ last_integration_uptime_ms = uptime
    /\ ev.w_imp = Zero /\ ev.w_exp = Zero

\* The first tick came with no power reading.
C8_WitnessUnavailable ==
    /\ ev.kind = "tick" /\ ev.first
    /\ ev.first_power = Null
    /\ last_integration_uptime_ms = uptime

\* C9: on a tick with a set anchor, dt_ms = now - anchor > 0 and a finite
\* power P, window import grows by P * dt_ms / 3600000 and window export stays
\* if P >= 0, window export grows by |P| * dt_ms / 3600000 and window import
\* stays if P < 0; for P # 0 the total that grows does change.  The amount is
\* that of the actual dt_ms.
C9_IntegrationExact ==
    [][(/\ IsTickStep
        /\ last_integration_uptime_ms # NullMs
        /\ uptime' - last_integration_uptime_ms > 0
        /\ isNumber(ev'.power_w)) =>
         LET dt_ms == uptime' - last_integration_uptime_ms
             P == ev'.power_w
             amount == Div(Mul(MathAbs(P), Num(dt_ms)), Num(3600000))
         IN  IF Leq(Zero, P)
             THEN /\ ev'.w_imp = Add(delta_energy_integrate_wh, amount)
                  /\ ev'.w_exp = delta_energy_ret_integrate_wh
                  /\ P # Zero => ev'.w_imp # delta_energy_integrate_wh
             ELSE /\ ev'.w_exp = Add(delta_energy_ret_integrate_wh, amount)
                  /\ ev'.w_imp = delta_energy_integrate_wh
                  /\ ev'.w_exp # delta_energy_ret_integrate_wh]_vars

\* One tick integrated -3600 W over 4999 ms: 4.999 Wh of export, no import.
C9_Witness ==
    /\ ev.kind = "tick"
    /\ ev.power_w = Num(-3600)
    /\ ev.w_exp = Rat(4999, 1000)
    /\ ev.w_imp = Zero

\* Ticks of +3600 W over 4999 ms and over 5000 ms: 9.999 Wh of import.
C9_WitnessImport ==
    /\ ev.kind = "tick"
    /\ ev.power_w = Num(3600)
    /\ ev.w_imp = Rat(9999, 1000)
    /\ ev.w_exp = Zero

\* C10 as stated: after +1000 W over 1800 s and the reference step to
\* (2001, 800), the correction sees a window of 0.5 Wh, applies 2.0 and leaves
\* the lifetime totals at {1001, 500}.
C10_EndToEndSeconds ==
    (ev.fired /\ uptime >= 1800 * 1000) =>
        /\ ev.w_imp = Rat(1, 2)
        /\ ev.factor = Num(2)
        /\ net_metered_energy_wh = Num(1001)
        /\ net_metered_energy_ret_wh = Num(500)

\* C10 (amended): the correction sees a reference net of 1 Wh and a window
\* of the energy integrated since the start, applies the clamped ratio, adds
\* factor * window to lifetime import and leaves lifetime export at 500.
\* After 1800 ms the window is at least 0.5 Wh; when nothing was integrated
\* during the wait it is 0.5 Wh, the factor 2.0, the totals {1001, 500}.
\* After 1800 s the window is at least 500 Wh, the factor 0.1; when nothing
\* was integrated during the wait the totals are {1050, 500}.
C10_EndToEnd ==
    ev.fired =>
        /\ RefNet(ev) = One
        /\ ev.w_exp = Zero
        /\ net_metered_energy_ret_wh = Num(500)
        /\ net_metered_energy_wh = Add(Num(1000), Mul(ev.factor, ev.w_imp))
        /\ components[NET_METERED_ENERGY_ID].value = net_metered_energy_wh
        /\ components[NET_METERED_ENERGY_RET_ID].value = Num(500)
        /\ uptime < 1800 * 1000 =>
              /\ Leq(Rat(1, 2), ev.w_imp)
              /\ ev.w_imp = Rat(1, 2) =>
                    /\ ev.factor = Num(2)
                    /\ net_metered_energy_wh = Num(1001)
        /\ uptime >= 1800 * 1000 =>
              /\ Leq(Num(500), ev.w_imp)
              /\ ev.factor = Rat(1, 10)
              /\ ev.w_imp = Num(500) => net_metered_energy_wh = Num(1050)

\* 1800 ms of +1000 W, nothing integrated during the wait: the correction
\* closed a window of 0.5 Wh with factor 2.0 and stored {1001, 500}.
C10_Witness ==
    /\ ev.fired
    /\ ev.w_imp = Rat(1, 2)
    /\ ev.factor = Num(2)
    /\ net_metered_energy_wh = Num(1001)
    /\ net_metered_energy_ret_wh = Num(500)
    /\ components[NET_METERED_ENERGY_ID].value = Num(1001)

\* 1800 s of +1000 W, nothing integrated during the wait: the correction
\* closed a window of 500 Wh with factor 0.1 and stored {1050, 500}.
C10_WitnessSeconds ==
    /\ ev.fired
    /\ ev.w_imp = Num(500)
    /\ ev.factor = Rat(1, 10)
    /\ net_metered_energy_wh = Num(1050)
    /\ net_metered_energy_ret_wh = Num(500)

\* C11: a tick in which no correction fires leaves both lifetime totals and
\* the stored values as they were, whatever it integrates; and no correction
\* fires in a tick that finds the changed flag clear, that reads no reference,
\* or that comes fewer than 5000 ms after the last change.
C11_LifetimeOnlyInCorrection ==
    [][IsTickStep =>
         /\ ~ev'.fired =>
               /\ net_metered_energy_wh' = net_metered_energy_wh
               /\ net_metered_energy_ret_wh' = net_metered_energy_ret_wh
               /\ components' = components
         /\ (\/ ~totals_changed_since_last_correction
             \/ ~ev'.totals_ok
             \/ uptime' - totals_last_change_uptime_ms' < STABLE_MS) => ~ev'.fired]_vars

\* A tick integrated 3600 W into the window, fired no correction, and the
\* lifetime totals and the stored values are those loaded at start.
C11_Witness ==
    /\ ev.kind = "tick" /\ ~ev.fired
    /\ ev.power_w = Num(3600)
    /\ Lt(Zero, delta_energy_integrate_wh)
    /\ net_metered_energy_wh = Num(7) /\ net_metered_energy_ret_wh = Num(3)
    /\ components[NET_METERED_ENERGY_ID].value = Num(7)
    /\ components[NET_METERED_ENERGY_RET_ID].value = Num(3)

\* C12: a tick that reads no reference (status missing, a counter missing or
\* non-finite) leaves baseline, last-seen values, changed flag, last-change
\* time, last-correction time, lifetime totals and stored values as they were
\* and does not reset the window: the window totals and the anchor are those
\* integratePower left.
C12_UnavailableReference ==
    [][(IsTickStep /\ ~ev'.totals_ok) =>
         /\ \A e \in EmDataStatus :
               (~e.present \/ ~isNumber(e.total_act) \/ ~isNumber(e.total_act_ret))
                   <=> ~readTotalsWh(e).ok
         /\ baseline_total_energy_wh' = baseline_total_energy_wh
         /\ baseline_total_energy_ret_wh' = baseline_total_energy_ret_wh
         /\ last_seen_total_energy_wh' = last_seen_total_energy_wh
         /\ last_seen_total_energy_ret_wh' = last_seen_total_energy_ret_wh
         /\ totals_changed_since_last_correction' = totals_changed_since_last_correction
         /\ totals_last_change_uptime_ms' = totals_last_change_uptime_ms
         /\ last_correction_uptime_ms' = last_correction_uptime_ms
         /\ net_metered_energy_wh' = net_metered_energy_wh
         /\ net_metered_energy_ret_wh' = net_metered_energy_ret_wh
         /\ components' = components
         /\ ~ev'.fired
         /\ delta_energy_integrate_wh' = ev'.w_imp
         /\ delta_energy_ret_integrate_wh' = ev'.w_exp
         /\ Leq(delta_energy_integrate_wh, delta_energy_integrate_wh')
         /\ Leq(delta_energy_ret_integrate_wh, delta_energy_ret_integrate_wh')]_vars

\* A tick read no reference although the changed flag was set and 5000 ms had
\* passed since the last change; it integrated power into the window.
C12_Witness ==
    /\ ev.kind = "tick" /\ ~ev.totals_ok /\ ~ev.fired
    /\ totals_changed_since_last_correction
    /\ uptime - totals_last_change_uptime_ms >= STABLE_MS
    /\ ev.power_w = Num(3600)
    /\ Lt(Zero, delta_energy_integrate_wh)

\* C13: every correction stores both updated lifetime totals within its step,
\* so that at the end of every tick the stored pair equals the in-memory
\* lifetime pair; a tick without a correction stores nothing.
C13_StoredInEveryCorrection ==
    [][IsTickStep =>
         /\ ev'.fired =>
               /\ components'[NET_METERED_ENERGY_ID].exists
               /\ components'[NET_METERED_ENERGY_ID].value = net_metered_energy_wh'
               /\ components'[NET_METERED_ENERGY_RET_ID].exists
               /\ components'[NET_METERED_ENERGY_RET_ID].value = net_metered_energy_ret_wh'
         /\ ~ev'.fired => components' = components]_vars

\* The same for the corrections of a script that holds both handles.
C13_StoredWhenHandles ==
    [][(IsTickStep /\ net_metered_energy_handle /\ net_metered_energy_ret_handle) =>
         /\ ev'.fired =>
               /\ components'[NET_METERED_ENERGY_ID].value = net_metered_energy_wh'
               /\ components'[NET_METERED_ENERGY_RET_ID].value = net_metered_energy_ret_wh'
               /\ delta_energy_integrate_wh' = Zero
               /\ delta_energy_ret_integrate_wh' = Zero
         /\ ~ev'.fired => components' = components]_vars

\* C14: a correction whose write fails or is not made (no handle) still adds
\* the corrected window to the in-memory lifetime totals and still closes and
\* resets the window; a total that is not written leaves its component as it
\* was, and a total that is written is written with its cumulative in-memory
\* value, corrections of earlier failed writes included.
C14_NoRollback ==
    [][(IsTickStep /\ ev'.fired) =>
         /\ net_metered_energy_wh' =
                Add(net_metered_energy_wh, Mul(ev'.factor, ev'.w_imp))
         /\ net_metered_energy_ret_wh' =
                Add(net_metered_energy_ret_wh, Mul(ev'.factor, ev'.w_exp))
         /\ delta_energy_integrate_wh' = Zero
         /\ delta_energy_ret_integrate_wh' = Zero
         /\ ~totals_changed_since_last_correction'
         /\ baseline_total_energy_wh' = last_seen_total_energy_wh'
         /\ baseline_total_energy_ret_wh' = last_seen_total_energy_ret_wh'
         /\ last_correction_uptime_ms' = uptime'
         /\ IF ev'.stored[1]
            THEN components'[NET_METERED_ENERGY_ID].value = net_metered_energy_wh'
            ELSE components'[NET_METERED_ENERGY_ID] = components[NET_METERED_ENERGY_ID]
         /\ IF ev'.stored[2]
            THEN components'[NET_METERED_ENERGY_RET_ID].value = net_metered_energy_ret_wh'
            ELSE components'[NET_METERED_ENERGY_RET_ID]
                     = components[NET_METERED_ENERGY_RET_ID]]_vars

\* A correction wrote lifetime import after the write of an earlier correction
\* had failed: the component holds the in-memory total, which is more than
\* the loaded 7 Wh plus the window of this correction.
C14_Witness ==
    /\ ev.kind = "tick" /\ ev.fired
    /\ ev.caught_up[1]
    /\ Lt(Zero, ev.w_imp)
    /\ components[NET_METERED_ENERGY_ID].value = net_metered_energy_wh
    /\ Lt(Add(Num(7), Mul(ev.factor, ev.w_imp)), net_metered_energy_wh)

\* The write of a correction failed although the handle is there: the
\* component holds less than the in-memory total, the window is closed.
C14_WitnessFailed ==
    /\ ev.kind = "tick" /\ ev.fired
    /\ net_metered_energy_handle /\ ~ev.stored[1]
    /\ Lt(components[NET_METERED_ENERGY_ID].value, net_metered_energy_wh)
    /\ delta_energy_integrate_wh = Zero

\* A correction was applied without a handle: the in-memory total has grown.
C14_WitnessNoHandle ==
    /\ ev.kind = "tick" /\ ev.fired
    /\ ~net_metered_energy_handle
    /\ Lt(Zero, net_metered_energy_wh)
    /\ delta_energy_integrate_wh = Zero

\* The tick finds an anchor and a forward interval
ForwardTick ==
    /\ IsTickStep
    /\ last_integration_uptime_ms # NullMs
    /\ uptime' - last_integration_uptime_ms > 0

\* C15: on a tick with dt_ms > 0 whose power sample is unavailable (status
\* missing, or a power that is no finite number) the anchor still advances to
\* now and both window totals stay as they were: a later tick integrates from
\* the new anchor only.
C15_UnavailablePower ==
    [][/\ \A e \in EmStatus :
             (~e.present \/ ~isNumber(e.total_act_power))
                 <=> ~isNumber(readTotalPowerW(e))
       /\ (ForwardTick /\ ~isNumber(ev'.power_w)) =>
             /\ ev'.w_imp = delta_energy_integrate_wh
             /\ ev'.w_exp = delta_energy_ret_integrate_wh
             /\ last_integration_uptime_ms' = uptime']_vars

\* 4999 ms of 3600 W and 5000 ms without a power sample, in this order: at
\* uptime 9999 the anchor is 9999 and the window holds 4.999 Wh.
C15_Witness ==
    /\ ev.kind = "tick" /\ ~ev.first /\ ~ev.dup
    /\ ev.power_w = Null
    /\ uptime = 2 * STABLE_MS - 1
    /\ last_integration_uptime_ms = uptime
    /\ ev.w_imp = Rat(4999, 1000) /\ ev.w_exp = Zero

BaselineEstablished ==
    /\ ~isNumber(baseline_total_energy_wh) \/ ~isNumber(baseline_total_energy_ret_wh)
    /\ ev'.totals_ok

\* C17: at the end of every step that closes or opens a window (a correction;
\* the first establishment of the baseline, at start or inside a tick) both
\* window totals are exactly 0.  A correction folds the whole window, the
\* energy of its own tick included, into the lifetime totals and sets the
\* anchor to now; an establishment of the baseline discards the window and
\* leaves the lifetime totals of a tick as they were, with the anchor unset
\* or at now: the next window integrates from the boundary only.
C17_WindowBoundary ==
    [][/\ (IsTickStep /\ ev'.fired) =>
             /\ delta_energy_integrate_wh' = Zero
             /\ delta_energy_ret_integrate_wh' = Zero
             /\ net_metered_energy_wh' =
                    Add(net_metered_energy_wh, Mul(ev'.factor, ev'.w_imp))
             /\ net_metered_energy_ret_wh' =
                    Add(net_metered_energy_ret_wh, Mul(ev'.factor, ev'.w_exp))
             /\ last_integration_uptime_ms' = uptime'
       /\ BaselineEstablished =>
             /\ isNumber(baseline_total_energy_wh')
             /\ isNumber(baseline_total_energy_ret_wh')
             /\ delta_energy_integrate_wh' = Zero
             /\ delta_energy_ret_integrate_wh' = Zero
             /\ ~ev'.fired
             /\ IsTickStep =>
                   /\ net_metered_energy_wh' = net_metered_energy_wh
                   /\ net_metered_energy_ret_wh' = net_metered_energy_ret_wh
                   /\ components' = components
             /\ last_integration_uptime_ms' \in {NullMs, uptime'}]_vars

\* A tick established the baseline after power had been integrated: the
\* window held energy after integratePower, holds none now, and no correction
\* fired.
C17_Witness ==
    /\ ev.kind = "tick" /\ ~ev.fired /\ ev.totals_ok
    /\ Lt(Zero, ev.w_imp)
    /\ delta_energy_integrate_wh = Zero /\ delta_energy_ret_integrate_wh = Zero
    /\ net_metered_energy_wh = Num(7) /\ net_metered_energy_ret_wh = Num(3)

\* A correction closed a window with import and export energy.
C17_WitnessCorrection ==
    /\ ev.kind = "tick" /\ ev.fired
    /\ Lt(Zero, ev.w_imp) /\ Lt(Zero, ev.w_exp)
    /\ delta_energy_integrate_wh = Zero /\ delta_energy_ret_integrate_wh = Zero
    /\ last_integration_uptime_ms = uptime

\* C18 as stated: after every correction the baseline is the reading of the
\* correction, the changed flag is false, and both the last-change time and
\* the last-correction time equal the time of the correction.
C18_StampsBothTimes ==
    (ev.kind = "tick" /\ ev.fired) =>
        /\ baseline_total_energy_wh = last_seen_total_energy_wh
        /\ baseline_total_energy_ret_wh = last_seen_total_energy_ret_wh
        /\ ~totals_changed_since_last_correction
        /\ last_correction_uptime_ms = uptime
        /\ totals_last_change_uptime_ms = uptime

\* C18 (amended): after every correction the baseline is the reading of the
\* correction (which is also the last-seen reading), the changed flag is
\* false, the last-correction time and the anchor equal the time of the
\* correction; the last-change time is not stamped: it is the time of the
\* last observed change, at least 5000 ms before the correction.
C18_AfterCorrection ==
    [][(IsTickStep /\ ev'.fired) =>
         /\ baseline_total_energy_wh' = last_seen_total_energy_wh'
         /\ baseline_total_energy_ret_wh' = last_seen_total_energy_ret_wh'
         /\ baseline_total_energy_wh' =
                Add(baseline_total_energy_wh,
                    Add(ev'.delta_energy_sum,
                        Sub(baseline_total_energy_ret_wh', baseline_total_energy_ret_wh)))
         /\ ~totals_changed_since_last_correction'
         /\ last_correction_uptime_ms' = uptime'
         /\ last_integration_uptime_ms' = uptime'
         /\ totals_last_change_uptime_ms' = totals_last_change_uptime_ms
         /\ totals_last_change_uptime_ms' <= uptime' - STABLE_MS]_vars

\* A correction moved the baseline to a new reading and stamped the
\* last-correction time; the last-change time lies 5000 ms back.
C18_Witness ==
    /\ ev.kind = "tick" /\ ev.fired
    /\ RefNet(ev) # Zero
    /\ baseline_total_energy_wh = last_seen_total_energy_wh
    /\ last_correction_uptime_ms = uptime
    /\ totals_last_change_uptime_ms = uptime - STABLE_MS

\* All four reference values of the corrector are set
ReferenceSet ==
    /\ isNumber(baseline_total_energy_wh) /\ isNumber(baseline_total_energy_ret_wh)
    /\ isNumber(last_seen_total_energy_wh) /\ isNumber(last_seen_total_energy_ret_wh)

\* C19: whenever the changed flag is true both baseline values and both
\* last-seen values are set; a correction fires only from a state with the
\* baseline set; and no tick of a running script unsets an established
\* baseline.
C19_BaselineBeforeCorrection ==
    [][/\ totals_changed_since_last_correction' => ReferenceSet'
       /\ IsTickStep =>
             /\ ev'.fired => (ReferenceSet /\ ReferenceSet')
             /\ ReferenceSet => ReferenceSet'
             /\ ev'.totals_ok => ReferenceSet']_vars

\* A tick has set the changed flag on a baseline that was established or
\* renewed after uptime 0: the reading differs from the baseline.
C19_Witness ==
    /\ ev.kind = "tick"
    /\ totals_changed_since_last_correction
    /\ ReferenceSet
    /\ last_seen_total_energy_wh # baseline_total_energy_wh
    /\ last_correction_uptime_ms > 0

\* A correction has fired in a run whose baseline a tick established.
C19_WitnessFired ==
    /\ ev.kind = "tick" /\ ev.fired
    /\ ReferenceSet
    /\ totals_last_change_uptime_ms > 0

\* The ratio of a window with int_net # 0
Ratio(e) == Div(RefNet(e), IntNet(e))

\* C20: a correction of a window with |int_net| > 0.001 Wh whose ratio
\* ref_net / int_net is <= 0.001 (zero, negative, or a small positive ratio)
\* applies exactly 1.0, not the clamp bound 0.1, and adds exactly the
\* uncorrected window totals to the lifetime totals.
C20_DegenerateRatio ==
    [][(ev'.fired /\ AboveEpsilon(ev') /\ Leq(Ratio(ev'), Rat(1, 1000))) =>
         /\ ev'.factor = One
         /\ net_metered_energy_wh' = Add(net_metered_energy_wh, ev'.w_imp)
         /\ net_metered_energy_ret_wh' = Add(net_metered_energy_ret_wh, ev'.w_exp)]_vars

\* A correction closed a window of 50 Wh against a reference net of 0.05 Wh:
\* the ratio is exactly 0.001 and the factor 1.0.
C20_Witness ==
    /\ ev.kind = "tick" /\ ev.fired
    /\ IntNet(ev) = Num(50)
    /\ RefNet(ev) = Rat(1, 20)
    /\ ev.factor = One
    /\ net_metered_energy_wh = Num(57)

\* The reference ran backward over a window of import energy (ratio -1).
C20_WitnessNegative ==
    /\ ev.kind = "tick" /\ ev.fired
    /\ IntNet(ev) = One
    /\ RefNet(ev) = Num(-1)
    /\ ev.factor = One

\* The reference did not move over a window of export energy (ratio 0).
C20_WitnessZero ==
    /\ ev.kind = "tick" /\ ev.fired
    /\ Lt(IntNet(ev), Num(-1))
    /\ RefNet(ev) = Zero
    /\ ev.factor = One

(***************************************************************************)
(* C21                                                                     *)
(***************************************************************************)
\* The changed flag is set and the window has a baseline (Change Flagged)
Flagged ==
    /\ ev.kind = "tick"
    /\ totals_changed_since_last_correction
    /\ isNumber(baseline_total_energy_wh) /\ isNumber(baseline_total_energy_ret_wh)

\* The last tick read the reference and found it equal to last-seen: a tick
\* that finds a difference stamps the change time with its own clock reading
\* (line 349), and under SpecLive every tick advances the clock.
QuietTick ==
    /\ ev.kind = "tick" /\ ev.totals_ok
    /\ totals_last_change_uptime_ms < uptime

\* The last tick applied a correction and left a new window open
WindowOpened ==
    /\ ev.kind = "tick" /\ ev.fired
    /\ ~totals_changed_since_last_correction
    /\ baseline_total_energy_wh = last_seen_total_energy_wh
    /\ baseline_total_energy_ret_wh = last_seen_total_energy_ret_wh
    /\ delta_energy_integrate_wh = Zero /\ delta_energy_ret_integrate_wh = Zero
    /\ last_correction_uptime_ms = uptime

\* The time the model covers holds the stability wait and one more tick
InHorizon == uptime + STABLE_MS + INTEGRATION_TICK_MS <= MaxLive

\* tick() is defined in the state for every clock reading and device status,
\* and with an advancing clock it moves the anchor; a tick that can read the
\* reference moves the machine on: without a baseline it establishes one,
\* in an open window a differing reading sets the flag, and with the flag set
\* an unchanged reading fires the correction once the wait is over.
TickProgress ==
    \A dt \in LiveDt, em_status \in EmChoices, emdata_status \in LiveRefs :
        \E s \in {tick(Globals, uptime + dt, em_status, emdata_status)},
           totals \in {readTotalsWh(emdata_status)} :
            /\ s.last_integration_uptime_ms = uptime + dt
            /\ totals.ok =>
                 /\ isNumber(s.baseline_total_energy_wh)
                 /\ isNumber(s.baseline_total_energy_ret_wh)
                 /\ (isNumber(last_seen_total_energy_wh)
                     /\ <<totals.total_energy_wh, totals.total_energy_ret_wh>>
                          # <<last_seen_total_energy_wh, last_seen_total_energy_ret_wh>>)
                      => s.totals_changed_since_last_correction
                 /\ (totals_changed_since_last_correction
                     /\ <<totals.total_energy_wh, totals.total_energy_ret_wh>>
                          = <<last_seen_total_energy_wh, last_seen_total_energy_ret_wh>>
                     /\ uptime + dt - totals_last_change_uptime_ms >= STABLE_MS)
                      => s.fired

\* C21: the timer keeps calling tick() with an advancing clock (weak fairness
\* of TickLive).  From every state with the changed flag set, either a later
\* tick finds the reference unavailable or changed again, or a correction
\* fires and leaves a new window open with the flag cleared; while the
\* reading stays available and unchanged the correction fires at the first
\* tick that is at least 5000 ms after the last change and at none before;
\* and in every state of the started script tick() can run for every clock
\* reading and every device status, an advancing tick always changing the
\* state: there is no terminal state.
C21_CorrectionEventuallyFires ==
    /\ (Flagged /\ QuietTick /\ InHorizon) ~> (WindowOpened \/ ~QuietTick)
    /\ [][(IsTickStep /\ Flagged /\ ev'.totals_ok /\ ~RefDiffers) =>
            (ev'.fired <=> uptime' - totals_last_change_uptime_ms >= STABLE_MS)]_vars
    /\ [](ev.kind # "load" => TickProgress)

\* The flag was set, the reading then stayed the same over ticks that were
\* too early (the tick before this one fired nothing 500 ms ago), and this
\* tick fired the correction, exactly 5000 ms after the change.
C21_Witness ==
    /\ WindowOpened /\ QuietTick
    /\ uptime - totals_last_change_uptime_ms = STABLE_MS
    /\ ev.w_imp = Num(5)

\* The flag is set, the last tick was quiet and too early, and the model covers
\* the rest of the wait
C21_WitnessWaiting ==
    /\ Flagged /\ QuietTick /\ InHorizon /\ ~ev.fired
    /\ uptime - totals_last_change_uptime_ms = STABLE_MS - INTEGRATION_TICK_MS

(***************************************************************************)
(* C22                                                                     *)
(***************************************************************************)
\* The ratio of the window lies inside the clamp range
RatioInRange(e) == Leq(Rat(1, 10), Ratio(e)) /\ Leq(Ratio(e), Num(10))

\* C22: every correction adds the window import times the factor to the
\* lifetime import and the window export times the same factor to the
\* lifetime export; and whenever |int_net| > 0.001 Wh and ref_net / int_net
\* lies in [0.1, 10], the increase of the lifetime import minus the increase
\* of the lifetime export equals ref_net.
C22_UniformFactor ==
    [][ev'.fired =>
         LET e == ev'
             grown == Sub(net_metered_energy_wh', net_metered_energy_wh)
             grown_ret == Sub(net_metered_energy_ret_wh', net_metered_energy_ret_wh)
         IN  /\ grown = Mul(e.w_imp, e.factor)
             /\ grown_ret = Mul(e.w_exp, e.factor)
             /\ (AboveEpsilon(e) /\ RatioInRange(e)) =>
                   /\ e.factor = Ratio(e)
                   /\ Sub(grown, grown_ret) = RefNet(e)]_vars

\* A correction closed a window with import and export energy, 55 Wh against
\* 50 Wh, and a reference net of 1 Wh: the factor 0.2 scaled both totals and
\* the lifetime net grew by 1 Wh.
C22_Witness ==
    /\ ev.kind = "tick" /\ ev.fired
    /\ ev.w_imp = Num(55) /\ ev.w_exp = Num(50)
    /\ RefNet(ev) = One
    /\ ev.factor = Rat(1, 5)
    /\ net_metered_energy_wh = Num(18)
    /\ net_metered_energy_ret_wh = Num(13)

\* A window of export energy against a falling reference net: the ratio is
\* positive and the lifetime net fell by the reference net.
C22_WitnessExport ==
    /\ ev.kind = "tick" /\ ev.fired
    /\ Lt(IntNet(ev), Zero) /\ Lt(RefNet(ev), Zero)
    /\ AboveEpsilon(ev) /\ RatioInRange(ev)
    /\ ev.factor # One
    /\ Sub(Sub(net_metered_energy_wh, Num(7)), Sub(net_metered_energy_ret_wh, Num(3)))
         = RefNet(ev)

(***************************************************************************)
(* C23                                                                     *)
(***************************************************************************)
\* The script has an integration anchor
Anchored == last_integration_uptime_ms # NullMs

\* C23 as stated: over any sequence of ticks and clock readings the anchor
\* never decreases, and no tick integrates an interval that starts before a
\* clock reading up to which an earlier tick has integrated.
C23_AnchorNeverDecreases ==
    [][(IsTickStep /\ Anchored) =>
         /\ last_integration_uptime_ms' >= last_integration_uptime_ms
         /\ ~ev'.twice]_vars

\* C23 (amended): the anchor stays set; integratePower never lowers it,
\* whatever the clock reads (a reading at or below the anchor changes
\* nothing); the only step that lowers it is a correction whose own clock
\* reading lies below the anchor, which re-anchors at that reading; and as
\* long as no clock reading of the run was below the reading before it, the
\* anchor never decreases, a correction moves it to its own reading, and no
\* interval is integrated twice.
C23_AnchorMonotoneClock ==
    [][(IsTickStep /\ Anchored) =>
         /\ last_integration_uptime_ms' # NullMs
         /\ \A now_ms \in ClockVals, em_status \in EmChoices :
               integratePower(Globals, now_ms, em_status).last_integration_uptime_ms
                 = IF now_ms > last_integration_uptime_ms
                   THEN now_ms
                   ELSE last_integration_uptime_ms
         /\ last_integration_uptime_ms' < last_integration_uptime_ms =>
               /\ ev'.fired
               /\ uptime' < last_integration_uptime_ms
               /\ last_integration_uptime_ms' = uptime'
         /\ ev'.fired => last_integration_uptime_ms' = uptime'
         /\ ev'.back = 0 =>
               /\ last_integration_uptime_ms' >= last_integration_uptime_ms
               /\ ~ev'.twice]_vars

\* The clock never ran backward; a tick found the clock at the anchor
\* (dt_ms = 0) and integrated nothing, and its correction, reading the clock
\* later, moved the anchor beyond the end of the integrated time.
C23_Witness ==
    /\ ev.kind = "tick" /\ ev.fired /\ ev.dup
    /\ ev.back = 0
    /\ ev.covered # NullMs
    /\ ev.covered < last_integration_uptime_ms
    /\ last_integration_uptime_ms = uptime

\* After one backward reading a correction had lowered the anchor, and this
\* tick integrated an interval a second time.
C23_WitnessTwice ==
    /\ ev.kind = "tick" /\ ev.twice
    /\ ev.back = 1
    /\ Lt(Zero, delta_energy_integrate_wh)

====
